---------------------------- MODULE Spec2Model ----------------------------
(***************************************************************************)
(* infra-console: the asynchronous request/response transport              *)
(* (TransportController, ApiHandler) and the view navigation state machine *)
(* (View, ElasticsearchComponent, ResourceTab, InputHandler) driven by the *)
(* event loop of App::run.                                                 *)
(*                                                                         *)
(* Conventions.  An Option<T> is a sequence of length 0 (None) or 1        *)
(* (Some(x) = <<x>>), except Option<usize> cursors, where None is NoneIdx, *)
(* and Option<ComponentKind>/Option<String>, where None is Nil.  Every     *)
(* response payload is a sequence of strings: a ClusterHealth is <<status>>,*)
(* a CatIndices/CatAliases is the sequence of its entries' names, an Index *)
(* is <<detail>>.                                                          *)
(***************************************************************************)
EXTENDS Integers, Sequences, FiniteSets, TLC

\* ------------------------------------------------------------------------
\* Bounds of the model
\* ------------------------------------------------------------------------

\* send_request is called at most MaxRequests times in a run.
MaxRequests == 2

\* The events the terminal holds for input.read at most
MaxEvents == 1

\* ------------------------------------------------------------------------
\* Program constants
\* ------------------------------------------------------------------------

\* mpsc::channel::<RequestEnvelope>(10), mpsc::channel::<ResponseEnvelope>(10)
ChannelCapacity == 10

\* TransportController::HISTORY_SIZE
HISTORY_SIZE == 100

Nil == "nil"
NoneIdx == 0 - 1

\* Config.elasticsearch: the configured cluster names, in configuration order.
Configs == <<"a", "b">>

\* static RESOURCES of ElasticsearchComponent::new
RESOURCES == <<"Cluster", "Index", "Alias">>

\* ResourceKind::variants()
ResourceKindVariants == <<"Elasticsearch", "Mongo", "RabbitMQ">>

\* ComponentKind::Elasticsearch(_) values
ElasticsearchComponentKind ==
    {"ClusterList", "ResourceList", "AliasTable", "IndexTable", "IndexDetail"}

\* ------------------------------------------------------------------------
\* What the backends can answer (external collaborators)
\* ------------------------------------------------------------------------

\* Names of indices and aliases, in the order of String::cmp ('.' < 'x' < 'y').
NameOrder == <<".k", "x", "y">>

Healths == {<<"green">>, <<"red">>}
NameLists == {<< >>, <<"y", "x">>, <<"x", ".k", "y">>}
Details == {<<"d1">>, <<"d2">>}


\* ------------------------------------------------------------------------
\* Generic helpers
\* ------------------------------------------------------------------------

Some(x) == <<x>>
None == << >>
IsSome(o) == Len(o) = 1

\* Iterator::nth(i) on a sequence, with i counted from 0.
Nth(s, i) == IF i >= 0 /\ i < Len(s) THEN Some(s[i + 1]) ELSE None

\* Mutant of RemoveAt: the element stays
RemoveAt_KeepsElement(s, i) == s
RemoveAt(s, i) == [j \in 1..(Len(s) - 1) |-> IF j < i THEN s[j] ELSE s[j + 1]]

\* HashMap::insert / HashMap::remove on a function
MapInsert(m, k, v) == [x \in (DOMAIN m) \cup {k} |-> IF x = k THEN v ELSE m[x]]
\* Mutant of MapGet: the entry of the smallest key, whatever the key asked for
MapGet_Oldest(m, k) == m[CHOOSE x \in DOMAIN m : \A y \in DOMAIN m : x <= y]
\* The value HashMap::remove returns for a key of the table
MapGet(m, k) == m[k]
\* Mutant of MapRemove: the entry is looked up but left in the table
MapRemove_KeepsEntry(m, k) == m
MapRemove(m, k) == [x \in (DOMAIN m) \ {k} |-> m[x]]
EmptyMap == [x \in {} |-> Nil]

\* ------------------------------------------------------------------------
\* Requests, responses and the handlers
\* ------------------------------------------------------------------------

\* ElasticsearchRequestEvent (wrapped in RequestEvent::Elasticsearch)
FetchCluster(c) == [kind |-> "FetchCluster", cluster_name |-> c, index |-> Nil]
FetchIndices(c) == [kind |-> "FetchIndices", cluster_name |-> c, index |-> Nil]
FetchAliases(c) == [kind |-> "FetchAliases", cluster_name |-> c, index |-> Nil]
FetchIndex(c, i) == [kind |-> "FetchIndex", cluster_name |-> c, index |-> i]

\* ElasticsearchResponseEvent (wrapped in ResponseEvent::Elasticsearch)
ResponseEvent(k, c, i, r) ==
    [kind |-> k, cluster_name |-> c, index |-> i, response |-> r]

\* error_stack frames of a Report, most recent first
Context(text) == [frame |-> "Context", text |-> text]
Attachment(text) == [frame |-> "Attachment", text |-> text]

\* error_stack::Result<ResponseEvent, ApiHandleError>
Ok(event) == [ok |-> TRUE, event |-> Some(event), report |-> << >>]
Err(report) == [ok |-> FALSE, event |-> None, report |-> report]

\* ElasticsearchApiHandler.clients: one client per configured cluster
Clients == {Configs[i] : i \in 1..Len(Configs)}

\* The failures ElasticsearchClient can report, as the frames left after
\* change_context(ApiHandleError::Elasticsearch).
ClientFailures(req) ==
    {<<Context("elasticsearch api error"), Context("api request error"),
       Context("transport error")>>}
    \cup (IF req.kind = "FetchCluster"
          THEN {<<Context("elasticsearch api error"),
                  Context("deserialize response"), Context("json error")>>}
          ELSE {})
    \cup (IF req.kind = "FetchIndex"
          THEN {<<Context("elasticsearch api error"),
                  Attachment("response does not contain expected index"),
                  Context("api request error")>>}
          ELSE {})

\* The payloads a backend can answer with
ClientPayloads(req) ==
    CASE req.kind = "FetchCluster" -> Healths
      [] req.kind = "FetchIndices" -> NameLists
      [] req.kind = "FetchAliases" -> NameLists
      [] req.kind = "FetchIndex" -> Details

ResponseKind(req) ==
    CASE req.kind = "FetchCluster" -> "ClusterHealth"
      [] req.kind = "FetchIndices" -> "Indices"
      [] req.kind = "FetchAliases" -> "Aliases"
      [] req.kind = "FetchIndex" -> "Index"

\* ElasticsearchApiHandler::lookup_cluster
lookup_cluster(name) ==
    IF name \in Clients
    THEN Ok(name)
    ELSE Err(<<Attachment("client not found by name: {name}"),
               Context("elasticsearch api error")>>)

\* ElasticsearchApiHandler::handle: the set of results the handler of a
\* request can complete with.
handle(req) ==
    IF ~lookup_cluster(req.cluster_name).ok
    THEN {Err(lookup_cluster(req.cluster_name).report)}
    ELSE {Ok(ResponseEvent(ResponseKind(req), req.cluster_name, req.index, p)) :
             p \in ClientPayloads(req)}
         \cup {Err(f) : f \in ClientFailures(req)}

\* format_err_msg: the Context frames joined by " | ", modelled as the
\* sequence of the joined parts (a one-part message has no separator).
RECURSIVE ContextTexts(_)
ContextTexts(frames) ==
    IF frames = << >> THEN << >>
    ELSE IF Head(frames).frame = "Context"
         THEN <<Head(frames).text>> \o ContextTexts(Tail(frames))
         ELSE ContextTexts(Tail(frames))

\* Mutant of format_err_msg: the fold drops every frame
format_err_msg_DropsFrames(report) == << >>
format_err_msg(report) == ContextTexts(report)

\* ------------------------------------------------------------------------
\* Data cache (view/component/elasticsearch/data.rs)
\* ------------------------------------------------------------------------

\* ClusterData::default()
ClusterDataDefault ==
    [health |-> None, indices |-> None, aliases |-> None, index |-> EmptyMap]

\* Data::cluster_data_mut: the entry of the cluster, inserted when missing
cluster_data_mut(d, cluster_name) ==
    IF cluster_name \in DOMAIN d THEN d
    ELSE MapInsert(d, cluster_name, ClusterDataDefault)

\* String::cmp on the names of the model
Rank(name) == CHOOSE i \in 1..Len(NameOrder) : NameOrder[i] = name
NameLess(x, y) == Rank(x) < Rank(y)

\* sort_unstable_by(|a, b| a.index.cmp(&b.index))
RECURSIVE SortedInsert(_, _)
SortedInsert(x, s) ==
    IF s = << >> THEN <<x>>
    ELSE IF NameLess(Head(s), x) THEN <<Head(s)>> \o SortedInsert(x, Tail(s))
         ELSE <<x>> \o s
RECURSIVE SortByName(_)
SortByName(s) ==
    IF s = << >> THEN << >> ELSE SortedInsert(Head(s), SortByName(Tail(s)))

\* str::starts_with('.') on the names of the model
StartsWithDot(name) == name \in {".k"}

\* TableFilter::apply
TableFilterApply(filter, item) ==
    CASE filter = "Internal" -> ~StartsWithDot(item)

RECURSIVE FilterNames(_, _)
FilterNames(filter, s) ==
    IF s = << >> THEN << >>
    ELSE IF (IF IsSome(filter) THEN TableFilterApply(filter[1], Head(s)) ELSE TRUE)
         THEN <<Head(s)>> \o FilterNames(filter, Tail(s))
         ELSE FilterNames(filter, Tail(s))

update_cluster_health(d, cluster_name, health) ==
    [cluster_data_mut(d, cluster_name) EXCEPT ![cluster_name].health = Some(health)]

\* Mutant of update_indices: the entry of the cluster is built anew
update_indices_DropsDetails(d, cluster_name, indices) ==
    [cluster_data_mut(d, cluster_name) EXCEPT
        ![cluster_name] = [ClusterDataDefault EXCEPT
                              !.indices = Some(SortByName(indices))]]
update_indices(d, cluster_name, indices) ==
    [cluster_data_mut(d, cluster_name) EXCEPT
        ![cluster_name].indices = Some(SortByName(indices))]

\* Mutant of update_aliases: the filter of the table is applied on writing
update_aliases_FiltersOnWrite(d, cluster_name, aliases) ==
    [cluster_data_mut(d, cluster_name) EXCEPT
        ![cluster_name].aliases =
            Some(FilterNames(Some("Internal"), SortByName(aliases)))]
update_aliases(d, cluster_name, aliases) ==
    [cluster_data_mut(d, cluster_name) EXCEPT
        ![cluster_name].aliases = Some(SortByName(aliases))]

update_index(d, cluster_name, name, index) ==
    [cluster_data_mut(d, cluster_name) EXCEPT
        ![cluster_name].index = MapInsert(@, name, index)]

\* Option<iterator>: None when the cluster or its list is not cached
get_visible_indices(d, cluster_name, filter) ==
    IF cluster_name \in DOMAIN d /\ IsSome(d[cluster_name].indices)
    THEN Some(FilterNames(filter, d[cluster_name].indices[1]))
    ELSE None

get_visible_aliases(d, cluster_name, filter) ==
    IF cluster_name \in DOMAIN d /\ IsSome(d[cluster_name].aliases)
    THEN Some(FilterNames(filter, d[cluster_name].aliases[1]))
    ELSE None

get_cluster_health(d, cluster_name) ==
    IF cluster_name \in DOMAIN d THEN d[cluster_name].health ELSE None

get_index(d, cluster_name, index) ==
    IF cluster_name \in DOMAIN d /\ index \in DOMAIN d[cluster_name].index
    THEN Some(d[cluster_name].index[index])
    ELSE None

\* ElasticsearchComponent::update_api_response
es_update_api_response(d, res) ==
    CASE res.kind = "ClusterHealth" ->
            update_cluster_health(d, res.cluster_name, res.response)
      [] res.kind = "Indices" -> update_indices(d, res.cluster_name, res.response)
      [] res.kind = "Aliases" -> update_aliases(d, res.cluster_name, res.response)
      [] res.kind = "Index" ->
            update_index(d, res.cluster_name, res.index, res.response)

\* ------------------------------------------------------------------------
\* Cursors (view/mod.rs)
\* ------------------------------------------------------------------------

\* Mutant of inc: the cursor does not wrap
inc_NoWrap(current, len) == IF len = 0 THEN 0 ELSE current + 1
\* Navigate::inc
inc(current, len) == IF len = 0 THEN 0 ELSE (current + 1) % len

inc_opt(current, len) == IF current # NoneIdx THEN inc(current, len) ELSE 0

dec(current, len) ==
    IF len = 0 THEN 0
    ELSE IF current = 0 THEN len - 1 ELSE current - 1

dec_opt(current, len) ==
    IF current # NoneIdx THEN dec(current, len)
    ELSE IF len = 0 THEN 0 ELSE len - 1

\* Mutant of ListStateApply: Down moves the cursor but reports DoesNotHappen,
\* as the table does
ListStateApply_DownUnreported(selected, navigate, len) ==
    CASE navigate = "Up" ->
            [selected |-> dec_opt(selected, len), navigated |-> "Happen"]
      [] navigate = "Down" ->
            [selected |-> inc_opt(selected, len), navigated |-> "DoesNotHappen"]
      [] OTHER -> [selected |-> selected, navigated |-> "DoesNotHappen"]
\* ApplyNavigate for ListState: the new selection and the Navigated result
ListStateApply(selected, navigate, len) ==
    CASE navigate = "Up" ->
            [selected |-> dec_opt(selected, len), navigated |-> "Happen"]
      [] navigate = "Down" ->
            [selected |-> inc_opt(selected, len), navigated |-> "Happen"]
      [] OTHER -> [selected |-> selected, navigated |-> "DoesNotHappen"]

\* ApplyNavigate for TableState
TableStateApply(selected, navigate, len) ==
    CASE navigate = "Up" ->
            [selected |-> dec_opt(selected, len), navigated |-> "Happen"]
      [] navigate = "Down" ->
            [selected |-> inc_opt(selected, len), navigated |-> "DoesNotHappen"]
      [] OTHER -> [selected |-> selected, navigated |-> "DoesNotHappen"]

\* ResourceTab::navigate: the new state.selected
resource_tab_navigate(current, navigate) ==
    CASE navigate = "Left" ->
            IF current - 1 < 0 THEN Len(ResourceKindVariants) - 1 ELSE current - 1
      [] navigate = "Right" -> (current + 1) % Len(ResourceKindVariants)
      [] OTHER -> current

\* ResourceTab::selected_resource
resource_tab_selected_resource(selected) == ResourceKindVariants[selected + 1]

\* ------------------------------------------------------------------------
\* ElasticsearchComponent (view/component/elasticsearch/mod.rs)
\* st is the component's State record, d its Data
\* ------------------------------------------------------------------------

\* State built by ElasticsearchComponent::new
EsStateNew ==
    [focused |-> Nil,
     cluster_list_state |-> 0,
     resource_list_state |-> 0,
     index_table_state |-> 0,
     alias_table_state |-> 0,
     index_table_filter |-> Some("Internal"),
     alias_table_filter |-> Some("Internal"),
     detail_index_name |-> Nil]

selected_cluster_name(st) == Nth(Configs, st.cluster_list_state)

es_selected_resource(st) == Nth(RESOURCES, st.resource_list_state)

\* Mutant of fetch_data: the drill-down key does not narrow the request
fetch_data_IgnoresKey(st) ==
    IF IsSome(selected_cluster_name(st)) /\ IsSome(es_selected_resource(st))
    THEN LET cluster == selected_cluster_name(st)[1]
             r == es_selected_resource(st)[1]
         IN  Some(CASE r = "Cluster" -> <<FetchCluster(cluster)>>
                    [] r = "Index" -> <<FetchIndices(cluster)>>
                    [] r = "Alias" -> <<FetchAliases(cluster)>>)
    ELSE None
\* fetch_data: Option<Vec<ElasticsearchRequestEvent>>
fetch_data(st) ==
    IF IsSome(selected_cluster_name(st)) /\ IsSome(es_selected_resource(st))
    THEN LET cluster == selected_cluster_name(st)[1]
             r == es_selected_resource(st)[1]
         IN  Some(CASE r = "Cluster" -> <<FetchCluster(cluster)>>
                    [] r = "Index" ->
                         IF st.detail_index_name # Nil
                         THEN <<FetchIndex(cluster, st.detail_index_name)>>
                         ELSE <<FetchIndices(cluster)>>
                    [] r = "Alias" -> <<FetchAliases(cluster)>>)
    ELSE None

\* Flattening of Option<impl Iterator<Item = RequestEvent>> for send_requests
Requests(opt) == IF IsSome(opt) THEN opt[1] ELSE << >>

\* Mutant of es_enter: the first visible row is taken, whatever the cursor
es_enter_FirstRow(st, d, component) ==
    IF component = "IndexDetail"
    THEN LET vis == IF IsSome(selected_cluster_name(st))
                    THEN get_visible_indices(d, selected_cluster_name(st)[1],
                                             st.index_table_filter)
                    ELSE None
             row == IF IsSome(vis) THEN Nth(vis[1], 0) ELSE None
             st2 == IF IsSome(row)
                    THEN [st EXCEPT !.detail_index_name = row[1]]
                    ELSE st
         IN  [state |-> st2, requests |-> fetch_data(st2), panic |-> FALSE]
    ELSE [state |-> st, requests |-> None, panic |-> FALSE]
\* ElasticsearchComponent::enter: the new State and the requests returned
es_enter(st, d, component) ==
    IF component = "IndexDetail"
    THEN LET row == IF IsSome(selected_cluster_name(st))
                       /\ st.index_table_state # NoneIdx
                    THEN LET vis == get_visible_indices(
                                        d, selected_cluster_name(st)[1],
                                        st.index_table_filter)
                         IN  IF IsSome(vis)
                             THEN Nth(vis[1], st.index_table_state)
                             ELSE None
                    ELSE None
             st2 == IF IsSome(row)
                    THEN [st EXCEPT !.detail_index_name = row[1]]
                    ELSE st
         IN  [state |-> st2, requests |-> fetch_data(st2), panic |-> FALSE]
    ELSE [state |-> st, requests |-> None, panic |-> FALSE]

\* Mutant of es_leave: the drill-down key is kept
es_leave_KeepsKey(st, component) == st
\* ElasticsearchComponent::leave
es_leave(st, component) ==
    IF component = "IndexDetail" THEN [st EXCEPT !.detail_index_name = Nil] ELSE st

\* ElasticsearchComponent::navigate
es_navigate(st, d, component, navigate) ==
    LET visible_indices ==
            IF IsSome(selected_cluster_name(st))
               /\ IsSome(get_visible_indices(d, selected_cluster_name(st)[1],
                                             st.index_table_filter))
            THEN Len(get_visible_indices(d, selected_cluster_name(st)[1],
                                         st.index_table_filter)[1])
            ELSE 0
        visible_aliases ==
            IF IsSome(selected_cluster_name(st))
               /\ IsSome(get_visible_aliases(d, selected_cluster_name(st)[1],
                                             st.alias_table_filter))
            THEN Len(get_visible_aliases(d, selected_cluster_name(st)[1],
                                         st.alias_table_filter)[1])
            ELSE 0
        applied ==
            CASE component = "ClusterList" ->
                    ListStateApply(st.cluster_list_state, navigate, Len(Configs))
              [] component = "ResourceList" ->
                    ListStateApply(st.resource_list_state, navigate, Len(RESOURCES))
              [] component = "IndexTable" ->
                    TableStateApply(st.index_table_state, navigate, visible_indices)
              [] component = "AliasTable" ->
                    TableStateApply(st.alias_table_state, navigate, visible_aliases)
              [] OTHER -> [selected |-> NoneIdx, navigated |-> "DoesNotHappen"]
        st2 ==
            CASE component = "ClusterList" ->
                    [st EXCEPT !.cluster_list_state = applied.selected]
              [] component = "ResourceList" ->
                    [st EXCEPT !.resource_list_state = applied.selected]
              [] component = "IndexTable" ->
                    [st EXCEPT !.index_table_state = applied.selected]
              [] component = "AliasTable" ->
                    [st EXCEPT !.alias_table_state = applied.selected]
              [] OTHER -> st
        fetch == component \in {"ClusterList", "ResourceList"}
                 /\ applied.navigated = "Happen"
    IN  [state |-> st2,
         requests |-> IF fetch THEN fetch_data(st2) ELSE None,
         \* IndexDetail => unreachable!()
         panic |-> component = "IndexDetail"]

\* ------------------------------------------------------------------------
\* Input decoding (event/input.rs)
\* A raw event is a key event (code, CONTROL modifier) or another terminal
\* event (code = "Resize").
\* ------------------------------------------------------------------------

KeyCodes == {"q", "c", "d", "e", "i", "a", "r", "h", "l", "k", "j", "x",
             "Left", "Right", "Up", "Down", "Enter", "Esc"}

Events == [code : KeyCodes, ctrl : BOOLEAN] \cup {[code |-> "Resize", ctrl |-> FALSE]}

\* The events the operator produces in Spec: quit, focus of the cluster list,
\* the resource list and the index table, Up/Down, Enter and Esc
Inputs ==
    [code : {"q", "c", "e", "i", "j", "k", "Enter", "Esc"}, ctrl : {FALSE}]
    \cup {[code |-> "c", ctrl |-> TRUE]}

\* Mutant of should_quit: the modifiers are not looked at, only q quits
should_quit_OnlyQ(input) == input.code = "q"
\* InputQuery::should_quit
should_quit(input) ==
    \/ input.code = "q"
    \/ input.code \in {"c", "d"} /\ input.ctrl

\* InputQuery::key_code: Nil for an event that is not a key event
key_code(input) == IF input.code = "Resize" THEN Nil ELSE input.code

\* InputQuery::navigate: Nil when the event is no navigation key
navigate(input) ==
    CASE input.code \in {"h", "Left"} -> "Left"
      [] input.code \in {"l", "Right"} -> "Right"
      [] input.code \in {"k", "Up"} -> "Up"
      [] input.code \in {"j", "Down"} -> "Down"
      [] OTHER -> Nil

Command(type, component, nav) ==
    [type |-> type, component |-> component, navigate |-> nav]

NoCommand == Command("None", Nil, Nil)

\* Mutant of input_handle: Esc is decoded to UnfocusComponent also while a
\* component is entered
input_handle_EscUnfocuses(input, state) ==
    LET esc == IF key_code(input) = "Esc"
               THEN Command("UnfocusComponent", Nil, Nil)
               ELSE NoCommand
    IN
    IF should_quit(input) THEN Command("QuitApp", Nil, Nil)
    ELSE IF state.focused_component = Nil
    THEN CASE state.selected_resource = "Elasticsearch" /\ key_code(input) = "c" ->
                 Command("FocusComponent", "ClusterList", Nil)
           [] state.selected_resource = "Elasticsearch" /\ key_code(input) = "e" ->
                 Command("FocusComponent", "ResourceList", Nil)
           [] state.selected_resource = "Elasticsearch" /\ key_code(input) = "i" ->
                 Command("FocusComponent", "IndexTable", Nil)
           [] state.selected_resource = "Elasticsearch" /\ key_code(input) = "a" ->
                 Command("FocusComponent", "AliasTable", Nil)
           [] key_code(input) = "r" -> Command("FocusComponent", "ResourceTab", Nil)
           [] OTHER -> esc
    ELSE IF navigate(input) # Nil
         THEN Command("NavigateComponent", state.focused_component, navigate(input))
         ELSE IF state.focused_component = "IndexTable" /\ key_code(input) = "Enter"
              THEN Command("Enter", "IndexDetail", Nil)
              ELSE esc
\* InputHandler::handle: Option<Command>, NoCommand when the event is ignored
input_handle(input, state) ==
    LET esc == IF key_code(input) = "Esc"
               THEN IF state.entered_component # Nil
                    THEN Command("Leave", state.entered_component, Nil)
                    ELSE Command("UnfocusComponent", Nil, Nil)
               ELSE NoCommand
    IN
    IF should_quit(input) THEN Command("QuitApp", Nil, Nil)
    ELSE IF state.focused_component = Nil
    THEN CASE state.selected_resource = "Elasticsearch" /\ key_code(input) = "c" ->
                 Command("FocusComponent", "ClusterList", Nil)
           [] state.selected_resource = "Elasticsearch" /\ key_code(input) = "e" ->
                 Command("FocusComponent", "ResourceList", Nil)
           [] state.selected_resource = "Elasticsearch" /\ key_code(input) = "i" ->
                 Command("FocusComponent", "IndexTable", Nil)
           [] state.selected_resource = "Elasticsearch" /\ key_code(input) = "a" ->
                 Command("FocusComponent", "AliasTable", Nil)
           [] key_code(input) = "r" -> Command("FocusComponent", "ResourceTab", Nil)
           [] OTHER -> esc
    ELSE IF navigate(input) # Nil
         THEN Command("NavigateComponent", state.focused_component, navigate(input))
         ELSE IF state.focused_component = "IndexTable" /\ key_code(input) = "Enter"
              THEN Command("Enter", "IndexDetail", Nil)
              ELSE esc

\* ------------------------------------------------------------------------
\* View (view/mod.rs).  A view is the record
\* [state: ViewState, resource_tab: resource_tab::State, es: State, data: Data].
\* ------------------------------------------------------------------------

\* ViewState::new
ViewStateNew ==
    [focused_component |-> Nil,
     entered_component |-> Nil,
     selected_resource |-> ResourceKindVariants[1]]

\* resource_tab::State::new
ResourceTabNew == [is_focused |-> FALSE, selected |-> 0]

\* View::new
ViewNew ==
    [state |-> ViewStateNew, resource_tab |-> ResourceTabNew,
     es |-> EsStateNew, data |-> EmptyMap]

ViewResult(v, requests, panic) ==
    [view |-> v, requests |-> requests, panic |-> panic]

\* View::pre_render_loop
pre_render_loop(v) ==
    IF resource_tab_selected_resource(v.resource_tab.selected) = "Elasticsearch"
    THEN ViewResult(v, fetch_data(v.es), FALSE)
    ELSE ViewResult(v, None, FALSE)

\* View::unfocus
unfocus(v) ==
    LET v1 == CASE v.state.focused_component = Nil -> v
                [] v.state.focused_component = "ResourceTab" ->
                      [v EXCEPT !.resource_tab.is_focused = FALSE]
                [] OTHER -> [v EXCEPT !.es.focused = Nil]
    IN  [v1 EXCEPT !.state.focused_component = Nil]

\* Mutant of focus: the current focus is not disabled first
focus_NoUnfocus(v, component) ==
    LET v2 == IF component = "ResourceTab"
              THEN [v EXCEPT !.resource_tab.is_focused = TRUE]
              ELSE [v EXCEPT !.es.focused = component]
    IN  [v2 EXCEPT !.state.focused_component = component]
\* View::focus
focus(v, component) ==
    LET v1 == unfocus(v)
        v2 == IF component = "ResourceTab"
              THEN [v1 EXCEPT !.resource_tab.is_focused = TRUE]
              ELSE [v1 EXCEPT !.es.focused = component]
    IN  [v2 EXCEPT !.state.focused_component = component]

\* Mutant of navigate_component: every navigation of an Elasticsearch
\* component fetches
navigate_component_AlwaysFetches(v, component, nav) ==
    IF component = "ResourceTab"
    THEN LET sel == resource_tab_navigate(v.resource_tab.selected, nav)
         IN  ViewResult([v EXCEPT !.resource_tab.selected = sel,
                                  !.state.selected_resource =
                                      resource_tab_selected_resource(sel)],
                        None, FALSE)
    ELSE LET r == es_navigate(v.es, v.data, component, nav)
         IN  ViewResult([v EXCEPT !.es = r.state], fetch_data(r.state), r.panic)
\* View::navigate_component
navigate_component(v, component, nav) ==
    IF component = "ResourceTab"
    THEN LET sel == resource_tab_navigate(v.resource_tab.selected, nav)
         IN  ViewResult([v EXCEPT !.resource_tab.selected = sel,
                                  !.state.selected_resource =
                                      resource_tab_selected_resource(sel)],
                        None, FALSE)
    ELSE LET r == es_navigate(v.es, v.data, component, nav)
         IN  ViewResult([v EXCEPT !.es = r.state], r.requests, r.panic)

\* View::enter_component
enter_component(v, component) ==
    LET v1 == [v EXCEPT !.state.entered_component = component]
    IN  IF component = "ResourceTab"
        THEN ViewResult(v1, None, TRUE)   \* unreachable!()
        ELSE LET r == es_enter(v1.es, v1.data, component)
             IN  ViewResult([v1 EXCEPT !.es = r.state], r.requests, r.panic)

\* View::leave_component
leave_component(v, component) ==
    IF component = "ResourceTab"
    THEN ViewResult(v, None, TRUE)   \* unreachable!()
    ELSE ViewResult([v EXCEPT !.es = es_leave(v.es, component),
                              !.state.entered_component = Nil],
                    None, FALSE)

\* Mutant of update_api_response: the detail of an index is dropped unless
\* the detail view is entered
update_api_response_OnlyWhileEntered(v, res) ==
    IF res.kind = "Index" /\ v.state.entered_component # "IndexDetail"
    THEN v
    ELSE [v EXCEPT !.data = es_update_api_response(v.data, res)]
\* View::update_api_response
update_api_response(v, res) ==
    [v EXCEPT !.data = es_update_api_response(v.data, res)]

\* The command arm of the select in App::run: the view after the command and
\* the requests handed to send_requests.
apply_command(v, command) ==
    CASE command.type = "UnfocusComponent" -> ViewResult(unfocus(v), None, FALSE)
      [] command.type = "FocusComponent" ->
            ViewResult(focus(v, command.component), None, FALSE)
      [] command.type = "NavigateComponent" ->
            navigate_component(v, command.component, command.navigate)
      [] command.type = "Enter" -> enter_component(v, command.component)
      [] command.type = "Leave" -> leave_component(v, command.component)

\* ------------------------------------------------------------------------
\* State
\* ------------------------------------------------------------------------

VARIABLES
    view,                \* View: state, resource_tab, es (State), data (Data)
    next_request_id,     \* TransportController.next_request_id
    in_flights,          \* TransportController.in_flights: id -> (Instant, RequestEvent)
    in_flight_requests,  \* TransportStats.in_flight_requests
    history,             \* TransportStats.history, front first
    req_ch,              \* the request channel (req_tx -> ApiHandler::run's rx)
    res_ch,              \* the response channel (res_tx -> res_rx)
    api_handler,         \* ApiHandler::run: "running" or "done"
    tasks,               \* the units spawned by dispatch that have not completed
    pc,                  \* App::run: "init", "draw", "select", "send", "done"
    outbox,              \* send_requests: the requests of the iterator not yet sent
    blocked,             \* send_request: the envelope suspended in req_tx.send
    now,                 \* Instant::now()
    issued,              \* log: every envelope built by send_request, with its Instant
    received,            \* log: the envelopes ApiHandler::run received, in order
    handled,             \* log: the response envelopes built by completed units
    delivered,           \* log: the response envelopes put on the response channel
    consumed,            \* log: the response envelopes recv_response returned
    event_stream         \* InputHandler.event_stream: the events read by the terminal and not yet taken, front first

transport_vars ==
    <<next_request_id, in_flights, in_flight_requests, history, now, issued>>
dispatcher_vars == <<api_handler, tasks, received, handled, delivered>>
vars ==
    <<view, next_request_id, in_flights, in_flight_requests, history, req_ch,
      res_ch, api_handler, tasks, pc, outbox, blocked, now, issued, received,
      handled, delivered, consumed, event_stream>>

\* RequestId(u64): the largest id.  u64::MAX is beyond the integers of the
\* model checker; the largest one it has stands for it.  Every run of the
\* model stays below it (MaxRequests).
U64_MAX == 2147483647

\* u64::saturating_add
saturating_add(a, b) == IF a >= U64_MAX - b THEN U64_MAX ELSE a + b

\* Mutant of ChannelSend: the message overtakes the buffered ones
ChannelSend_Overtakes(ch, message) == <<message>> \o ch
\* mpsc Sender::send: the message is put behind the buffered ones
ChannelSend(ch, message) == Append(ch, message)

RequestEnvelope(id, event) == [request_id |-> id, event |-> event]
ResponseEnvelope(id, result) == [request_id |-> id, result |-> result]

\* Mutant of TransportResult: the two Instants are stored in each other's field
TransportResult_SwappedInstants(request, response, request_send, response_received) ==
    [request |-> request, response |-> response,
     request_send |-> response_received, response_received |-> request_send]
\* TransportResult
TransportResult(request, response, request_send, response_received) ==
    [request |-> request, response |-> response,
     request_send |-> request_send, response_received |-> response_received]

\* std::result::Result<ResponseEvent, String> of a TransportResult
TransportResponse(result) ==
    IF result.ok
    THEN [ok |-> TRUE, event |-> result.event, err |-> << >>]
    ELSE [ok |-> FALSE, event |-> None, err |-> format_err_msg(result.report)]

\* Mutant of save_transport: the push never truncates
save_transport_NoTruncate(q, transport) == <<transport>> \o q
\* TransportController::save_transport: the history after the push
save_transport(q, transport) ==
    LET pushed == <<transport>> \o q
    IN  IF Len(pushed) > HISTORY_SIZE * 2
        THEN SubSeq(pushed, 1, HISTORY_SIZE)
        ELSE pushed

\* TransportStats::latest_transport
latest_transport == IF history = << >> THEN None ELSE Some(Head(history))

\* TransportController::init, View::new, and the position before
\* pre_render_loop in App::run
Init ==
    /\ view = ViewNew
    /\ next_request_id = 0
    /\ in_flights = EmptyMap
    /\ in_flight_requests = 0
    /\ history = << >>
    /\ req_ch = << >>
    /\ res_ch = << >>
    /\ api_handler = "running"
    /\ tasks = << >>
    /\ pc = "init"
    /\ outbox = << >>
    /\ blocked = None
    /\ now = 0
    /\ issued = << >>
    /\ received = << >>
    /\ handled = << >>
    /\ delivered = << >>
    /\ consumed = << >>
    /\ event_stream = << >>

\* ------------------------------------------------------------------------
\* Event loop (App::run) and TransportController
\* ------------------------------------------------------------------------

\* Mutant of StartSend: with nothing to send App::run is back in the select
\* without a draw
StartSend_SkipsDraw(reqs) ==
    /\ outbox' = reqs
    /\ pc' = IF reqs = << >> THEN "select" ELSE "send"
\* Where App::run goes after an arm handed reqs to send_requests
StartSend(reqs) ==
    /\ outbox' = reqs
    /\ pc' = IF reqs = << >> THEN "draw" ELSE "send"

\* view.pre_render_loop().map(|events| transport.send_requests(events))
PreRenderLoop ==
    /\ pc = "init"
    /\ StartSend(Requests(pre_render_loop(view).requests))
    /\ UNCHANGED <<view, transport_vars, dispatcher_vars, req_ch, res_ch,
                   blocked, consumed, event_stream>>

\* terminal.draw(|f| view.render(f, f.size()))
Draw ==
    /\ pc = "draw"
    /\ pc' = "select"
    /\ UNCHANGED <<view, transport_vars, dispatcher_vars, req_ch, res_ch,
                   outbox, blocked, consumed, event_stream>>

\* terminal.draw fails: AppError::TerminalIo is returned from run
DrawFails ==
    /\ pc = "draw"
    /\ pc' = "done"
    /\ UNCHANGED <<view, transport_vars, dispatcher_vars, req_ch, res_ch,
                   outbox, blocked, consumed, event_stream>>

\* The input arm of the select: input.read(view.state()) yields a command for
\* the event at the front of the stream, or for the event that arrives during
\* the wait when the stream is empty.  limit caps the number of requests sent
\* in a run.
Input(input, limit) ==
    /\ pc = "select"
    /\ IF event_stream = << >> THEN TRUE ELSE Head(event_stream) = input
    /\ event_stream' = IF event_stream = << >> THEN << >> ELSE Tail(event_stream)
    /\ LET command == input_handle(input, view.state)
       IN  /\ command # NoCommand
           /\ IF command.type = "QuitApp"
              THEN /\ pc' = "done"
                   /\ UNCHANGED <<view, outbox>>
              ELSE LET r == apply_command(view, command)
                   IN  /\ next_request_id + Len(Requests(r.requests)) <= limit
                       /\ view' = r.view
                       /\ IF r.panic
                          THEN pc' = "done" /\ outbox' = << >>
                          ELSE StartSend(Requests(r.requests))
    /\ UNCHANGED <<transport_vars, dispatcher_vars, req_ch, res_ch, blocked,
                   consumed >>

\* The terminal reads an event of the operator: EventStream has it ready for
\* the next poll of input.read
KeyEvent(input) ==
    /\ pc # "done"
    /\ Len(event_stream) < MaxEvents
    /\ event_stream' = Append(event_stream, input)
    /\ UNCHANGED <<view, transport_vars, dispatcher_vars, req_ch, res_ch, pc,
                   outbox, blocked, consumed>>

\* InputHandler::read takes an event that handle decodes to no command and
\* goes on to await the next one: App::run stays in the select
ReadIgnored ==
    /\ pc = "select"
    /\ event_stream # << >>
    /\ input_handle(Head(event_stream), view.state) = NoCommand
    /\ event_stream' = Tail(event_stream)
    /\ UNCHANGED <<view, transport_vars, dispatcher_vars, req_ch, res_ch, pc,
                   outbox, blocked, consumed>>

\* Mutant of request_id: next_request_id is not advanced
request_id_NoAdvance(next) == [id |-> next, next |-> next]
\* TransportController::request_id: the id returned; next_request_id advances
request_id(next) == [id |-> next, next |-> saturating_add(next, 1)]

\* Mutant of SendRequest: the error of a send to a closed channel is unwrapped
\* and App::run ends
SendRequest_UnwrapsSend ==
    /\ pc = "send"
    /\ blocked = None
    /\ outbox # << >>
    /\ LET req == Head(outbox)
           alloc == request_id(next_request_id)
           flights == MapInsert(in_flights, alloc.id, [at |-> now + 1, request |-> req])
           envelope == RequestEnvelope(alloc.id, req)
       IN  /\ next_request_id' = alloc.next
           /\ now' = now + 1
           /\ in_flights' = flights
           /\ in_flight_requests' = Cardinality(DOMAIN flights)
           /\ issued' = Append(issued, [envelope |-> envelope, at |-> now + 1])
           /\ outbox' = Tail(outbox)
           /\ IF api_handler # "running"
              THEN /\ UNCHANGED <<req_ch, blocked>>
                   /\ pc' = "done"
              ELSE IF Len(req_ch) < ChannelCapacity
              THEN /\ req_ch' = ChannelSend(req_ch, envelope)
                   /\ UNCHANGED blocked
                   /\ pc' = IF Tail(outbox) = << >> THEN "draw" ELSE "send"
              ELSE /\ blocked' = Some(envelope)
                   /\ UNCHANGED <<req_ch, pc>>
    /\ UNCHANGED <<view, history, res_ch, dispatcher_vars, consumed, event_stream>>
\* TransportController::send_request up to the await of req_tx.send, and the
\* send itself when the channel has room
SendRequest ==
    /\ pc = "send"
    /\ blocked = None
    /\ outbox # << >>
    /\ LET req == Head(outbox)
           alloc == request_id(next_request_id)
           flights == MapInsert(in_flights, alloc.id, [at |-> now + 1, request |-> req])
           envelope == RequestEnvelope(alloc.id, req)
       IN  /\ next_request_id' = alloc.next
           /\ now' = now + 1
           /\ in_flights' = flights
           /\ in_flight_requests' = Cardinality(DOMAIN flights)
           /\ issued' = Append(issued, [envelope |-> envelope, at |-> now + 1])
           /\ outbox' = Tail(outbox)
           /\ IF api_handler # "running"
              THEN \* the receiver is gone: send fails, .ok() drops the error
                   /\ UNCHANGED <<req_ch, blocked>>
                   /\ pc' = IF Tail(outbox) = << >> THEN "draw" ELSE "send"
              ELSE IF Len(req_ch) < ChannelCapacity
              THEN /\ req_ch' = ChannelSend(req_ch, envelope)
                   /\ UNCHANGED blocked
                   /\ pc' = IF Tail(outbox) = << >> THEN "draw" ELSE "send"
              ELSE /\ blocked' = Some(envelope)
                   /\ UNCHANGED <<req_ch, pc>>
    /\ UNCHANGED <<view, history, res_ch, dispatcher_vars, consumed, event_stream>>

\* req_tx.send completes after having waited for room in the channel
SendResume ==
    /\ pc = "send"
    /\ blocked # None
    /\ \/ /\ api_handler = "running"
          /\ Len(req_ch) < ChannelCapacity
          /\ req_ch' = ChannelSend(req_ch, blocked[1])
       \/ /\ api_handler # "running"
          /\ UNCHANGED req_ch
    /\ blocked' = None
    /\ pc' = IF outbox = << >> THEN "draw" ELSE "send"
    /\ UNCHANGED <<view, transport_vars, res_ch, dispatcher_vars, outbox, consumed, event_stream>>

\* input.read, polled first by the biased select, has a command to return: an
\* event of the stream decodes to one
CommandReady ==
    \E i \in 1..Len(event_stream) :
       input_handle(event_stream[i], view.state) # NoCommand

\* Mutant of RecvResponse: the arm is taken whatever input.read has ready
RecvResponse_Unbiased ==
    /\ pc = "select"
    /\ UNCHANGED event_stream
    /\ res_ch # << >>
    /\ LET res == Head(res_ch)
       IN  /\ res_ch' = Tail(res_ch)
           /\ now' = now + 1
           /\ consumed' = Append(consumed, res)
           /\ IF res.request_id \in DOMAIN in_flights
              THEN LET entry == MapGet(in_flights, res.request_id)
                       flights == MapRemove(in_flights, res.request_id)
                       t == TransportResult(entry.request,
                                            TransportResponse(res.result),
                                            entry.at, now + 1)
                   IN  /\ in_flights' = flights
                       /\ in_flight_requests' = Cardinality(DOMAIN flights)
                       /\ history' = save_transport(history, t)
              ELSE UNCHANGED <<in_flights, in_flight_requests, history>>
           /\ view' = IF res.result.ok
                      THEN update_api_response(view, res.result.event[1])
                      ELSE view
    /\ pc' = "draw"
    /\ UNCHANGED <<next_request_id, issued, req_ch, dispatcher_vars, outbox, blocked>>
\* The response arm of the select: transport.recv_response() and the match on
\* res.result.  The arm is polled after input.read, which has taken the events
\* it ignores off the stream and has no command to return.
RecvResponse ==
    /\ pc = "select"
    /\ ~CommandReady
    /\ event_stream' = << >>
    /\ res_ch # << >>
    /\ LET res == Head(res_ch)
       IN  /\ res_ch' = Tail(res_ch)
           /\ now' = now + 1
           /\ consumed' = Append(consumed, res)
           /\ IF res.request_id \in DOMAIN in_flights
              THEN LET entry == MapGet(in_flights, res.request_id)
                       flights == MapRemove(in_flights, res.request_id)
                       t == TransportResult(entry.request,
                                            TransportResponse(res.result),
                                            entry.at, now + 1)
                   IN  /\ in_flights' = flights
                       /\ in_flight_requests' = Cardinality(DOMAIN flights)
                       /\ history' = save_transport(history, t)
              ELSE UNCHANGED <<in_flights, in_flight_requests, history>>
           /\ view' = IF res.result.ok
                      THEN update_api_response(view, res.result.event[1])
                      ELSE view
    /\ pc' = "draw"
    /\ UNCHANGED <<next_request_id, issued, req_ch, dispatcher_vars, outbox, blocked>>

\* ------------------------------------------------------------------------
\* ApiHandler (event/api/mod.rs)
\* ------------------------------------------------------------------------

\* Mutant of ApiRecv: the loop awaits the unit it spawned before it receives
\* the next envelope
ApiRecv_AwaitsUnit ==
    /\ api_handler = "running"
    /\ tasks = << >>
    /\ req_ch # << >>
    /\ req_ch' = Tail(req_ch)
    /\ tasks' = Append(tasks, Head(req_ch))
    /\ received' = Append(received, Head(req_ch))
    /\ UNCHANGED <<view, transport_vars, res_ch, api_handler, handled,
                   delivered, pc, outbox, blocked, consumed, event_stream>>

\* ApiHandler::run: rx.recv() yields an envelope, dispatch spawns its unit
ApiRecv ==
    /\ api_handler = "running"
    /\ req_ch # << >>
    /\ req_ch' = Tail(req_ch)
    /\ tasks' = Append(tasks, Head(req_ch))
    /\ received' = Append(received, Head(req_ch))
    /\ UNCHANGED <<view, transport_vars, res_ch, api_handler, handled,
                   delivered, pc, outbox, blocked, consumed, event_stream>>

\* ApiHandler::run: rx.recv() yields None once the TransportController (and
\* req_tx with it) is dropped and the channel is drained
ApiDone ==
    /\ api_handler = "running"
    /\ pc = "done"
    /\ req_ch = << >>
    /\ api_handler' = "done"
    /\ UNCHANGED <<view, transport_vars, req_ch, res_ch, tasks, received,
                   handled, delivered, pc, outbox, blocked, consumed, event_stream>>

\* Mutant of TaskComplete: a failure of the handler ends the dispatch loop
\* instead of becoming a response
TaskComplete_ErrorEndsLoop(i, result) ==
    /\ i \in 1..Len(tasks)
    /\ result \in handle(tasks[i].event)
    /\ LET res == ResponseEnvelope(tasks[i].request_id, result)
       IN  /\ handled' = Append(handled, res)
           /\ IF pc = "done" \/ ~result.ok
              THEN UNCHANGED <<res_ch, delivered>>
              ELSE /\ Len(res_ch) < ChannelCapacity
                   /\ res_ch' = ChannelSend(res_ch, res)
                   /\ delivered' = Append(delivered, res)
    /\ tasks' = RemoveAt(tasks, i)
    /\ api_handler' = IF result.ok THEN api_handler ELSE "done"
    /\ UNCHANGED <<view, transport_vars, req_ch, received, pc,
                   outbox, blocked, consumed, event_stream>>

\* The unit spawned by dispatch: the handler completes with result and
\* res_tx.send puts the response envelope on the channel (the unit waits
\* while the channel is full; the send fails once res_rx is dropped)
TaskComplete(i, result) ==
    /\ i \in 1..Len(tasks)
    /\ result \in handle(tasks[i].event)
    /\ LET res == ResponseEnvelope(tasks[i].request_id, result)
       IN  /\ handled' = Append(handled, res)
           /\ IF pc = "done"
              THEN UNCHANGED <<res_ch, delivered>>
              ELSE /\ Len(res_ch) < ChannelCapacity
                   /\ res_ch' = ChannelSend(res_ch, res)
                   /\ delivered' = Append(delivered, res)
    /\ tasks' = RemoveAt(tasks, i)
    /\ UNCHANGED <<view, transport_vars, req_ch, api_handler, received, pc,
                   outbox, blocked, consumed, event_stream>>

\* A run of Spec sends at most MaxRequests envelopes, fewer than the request
\* channel holds (ChannelCapacity), so req_tx.send never suspends in it and
\* SendResume has no step to take.
Next ==
    \/ PreRenderLoop
    \/ Draw
    \/ DrawFails
    \/ \E input \in Inputs : Input(input, MaxRequests)
    \/ SendRequest
    \/ RecvResponse
    \/ ApiRecv
    \/ ApiDone
    \/ \E i \in 1..Len(tasks) : \E result \in handle(tasks[i].event) :
           TaskComplete(i, result)

Spec == Init /\ [][Next]_vars

\* The unit spawned for the request with this id completes
TaskCompleteOf(id) ==
    \E i \in 1..Len(tasks) :
       /\ tasks[i].request_id = id
       /\ \E result \in handle(tasks[i].event) : TaskComplete(i, result)

\* The events the operator produces in FairSpec: quit, focus of the cluster
\* list, Down
FairInputs == [code : {"q", "c", "j"}, ctrl : {FALSE}]

NextFair ==
    \/ PreRenderLoop
    \/ Draw
    \/ DrawFails
    \/ \E input \in FairInputs : Input(input, MaxRequests)
    \/ SendRequest
    \/ RecvResponse
    \/ ApiRecv
    \/ ApiDone
    \/ \E i \in 1..Len(tasks) : \E result \in handle(tasks[i].event) :
           TaskComplete(i, result)

\* The runtime keeps polling the dispatch loop and the spawned units; the
\* handler of every request but the first one terminates.  Nothing is assumed
\* of the handler of the first request (id 0): it may never complete.
FairSpec ==
    /\ Init /\ [][NextFair]_vars
    /\ WF_vars(ApiRecv)
    /\ \A id \in 1..MaxRequests : WF_vars(TaskCompleteOf(id))

\* ------------------------------------------------------------------------
\* recv_response on its own: the controller in a state drawn from bounded
\* sets, with one response envelope on the response channel whose id may or
\* may not be a key of the in-flight table (the latter is the "response for
\* an unknown id" of recv_response), consumed by the response arm of App::run.
\* ------------------------------------------------------------------------

OrphanRequests == {FetchCluster("a"), FetchIndices("b")}

OrphanViews ==
    {ViewNew,
     [ViewNew EXCEPT !.data = update_cluster_health(EmptyMap, "a", <<"red">>)]}

InitOrphan ==
    /\ view \in OrphanViews
    /\ next_request_id = MaxRequests
    /\ \E ids \in SUBSET (0..(MaxRequests - 1)) :
          in_flights \in [ids -> {[at |-> 1, request |-> r] : r \in OrphanRequests}]
    /\ in_flight_requests = Cardinality(DOMAIN in_flights)
    /\ history = << >>
    /\ req_ch = << >>
    /\ \E id \in 0..(MaxRequests - 1) : \E r \in OrphanRequests :
          \E result \in handle(r) : res_ch = <<ResponseEnvelope(id, result)>>
    /\ api_handler = "running"
    /\ tasks = << >>
    /\ pc = "select"
    /\ outbox = << >>
    /\ blocked = None
    /\ now = 1
    /\ issued = << >>
    /\ received = << >>
    /\ handled = << >>
    /\ delivered = << >>
    /\ consumed = << >>
    /\ event_stream = << >>

NextOrphan ==
    \/ RecvResponse
    \/ Draw

SpecOrphan == InitOrphan /\ [][NextOrphan]_vars

\* ------------------------------------------------------------------------
\* save_transport on a long history: the controller after HistoryLen
\* responses were consumed (the operator moving the cursor of the cluster
\* list up and down, every response consumed before the next move), with
\* MaxRequests more requests sent and their units running.  The logs start
\* at the requests that are in flight.
\* ------------------------------------------------------------------------

\* Lengths of the history from which the next pushes reach HISTORY_SIZE * 2
HistoryLens == {HISTORY_SIZE * 2 - 1, HISTORY_SIZE * 2}

\* The request sent under id
LongRunRequest(id) == FetchCluster(Configs[(id % Len(Configs)) + 1])

\* The record pushed for the request with this id, consumed at 2 * id + 2
LongRunRecord(id) ==
    TransportResult(
        LongRunRequest(id),
        TransportResponse(Ok(ResponseEvent("ClusterHealth",
                                           LongRunRequest(id).cluster_name,
                                           Nil, <<"green">>))),
        2 * id + 1, 2 * id + 2)

\* The history after the responses of the ids 0..(len - 1), newest first
LongRunHistory(len) == [j \in 1..len |-> LongRunRecord(len - j)]

LongRunView ==
    focus([ViewNew EXCEPT !.data =
               update_cluster_health(
                   update_cluster_health(EmptyMap, "a", <<"green">>),
                   "b", <<"green">>)],
          "ClusterList")

InitHistory ==
    \E len \in HistoryLens :
       LET ids == len..(len + MaxRequests - 1)
           envelopes == [k \in 1..MaxRequests |->
                            RequestEnvelope(len + k - 1, LongRunRequest(len + k - 1))]
       IN  /\ view = LongRunView
           /\ next_request_id = len + MaxRequests
           /\ in_flights = [id \in ids |->
                               [at |-> 2 * len + (id - len) + 1,
                                request |-> LongRunRequest(id)]]
           /\ in_flight_requests = MaxRequests
           /\ history = LongRunHistory(len)
           /\ req_ch = << >>
           /\ res_ch = << >>
           /\ api_handler = "running"
           /\ tasks = envelopes
           /\ pc = "select"
           /\ outbox = << >>
           /\ blocked = None
           /\ now = 2 * len + MaxRequests
           /\ issued = [k \in 1..MaxRequests |->
                           [envelope |-> envelopes[k], at |-> 2 * len + k]]
           /\ received = envelopes
           /\ handled = << >>
           /\ delivered = << >>
           /\ consumed = << >>
           /\ event_stream = << >>

NextHistory ==
    \/ \E i \in 1..Len(tasks) : \E result \in handle(tasks[i].event) :
           TaskComplete(i, result)
    \/ RecvResponse
    \/ Draw

SpecHistory == InitHistory /\ [][NextHistory]_vars

\* ------------------------------------------------------------------------
\* The command arm of App::run on its own.  The run starts after the operator
\* moved the cluster list to b and the resource list to Index (keys c, j,
\* Esc, e, j) and the responses of the three requests sent so far (health of
\* a, health of b, indices of b) were consumed; the indices the backend
\* answered with are drawn from NameLists.  From there the operator produces
\* any event; the requests sent stay on the request channel.  The logs start
\* at this point.
\* ------------------------------------------------------------------------

\* The view after the keys c, j, Esc, e, j
NavKeysView ==
    LET v1 == navigate_component(focus(ViewNew, "ClusterList"),
                                 "ClusterList", "Down").view
        v2 == focus(unfocus(v1), "ResourceList")
    IN  navigate_component(v2, "ResourceList", "Down").view

\* The requests sent so far, in the order of their ids
NavRequestsSent == <<FetchCluster("a"), FetchCluster("b"), FetchIndices("b")>>

\* The responses consumed so far, for a backend that answers indices
NavResponses(indices) ==
    <<ResponseEvent("ClusterHealth", "a", Nil, <<"green">>),
      ResponseEvent("ClusterHealth", "b", Nil, <<"green">>),
      ResponseEvent("Indices", "b", Nil, indices)>>

\* The view after the responses were applied
NavView(indices) ==
    update_api_response(
        update_api_response(
            update_api_response(NavKeysView, NavResponses(indices)[1]),
            NavResponses(indices)[2]),
        NavResponses(indices)[3])

\* The history after the responses of the requests were consumed, each right
\* after its send, newest first
HistoryOf(requests, responses) ==
    LET n == Len(requests)
    IN  [j \in 1..n |->
            TransportResult(requests[n + 1 - j],
                            TransportResponse(Ok(responses[n + 1 - j])),
                            2 * (n - j) + 1, 2 * (n - j) + 2)]

NavHistory(indices) == HistoryOf(NavRequestsSent, NavResponses(indices))

InitNav ==
    /\ \E indices \in NameLists :
          /\ view = NavView(indices)
          /\ history = NavHistory(indices)
    /\ next_request_id = Len(NavRequestsSent)
    /\ in_flights = EmptyMap
    /\ in_flight_requests = 0
    /\ req_ch = << >>
    /\ res_ch = << >>
    /\ api_handler = "running"
    /\ tasks = << >>
    /\ pc = "select"
    /\ outbox = << >>
    /\ blocked = None
    /\ now = 2 * Len(NavRequestsSent)
    /\ issued = << >>
    /\ received = << >>
    /\ handled = << >>
    /\ delivered = << >>
    /\ consumed = << >>
    /\ event_stream = << >>

NextNav ==
    \/ \E input \in Events : Input(input, Len(NavRequestsSent) + MaxRequests)
    \/ SendRequest
    \/ Draw

SpecNav == InitNav /\ [][NextNav]_vars

\* ------------------------------------------------------------------------
\* A refresh of the index list in flight.  After the run of InitNav the
\* operator moved the resource list to Alias and back to Index (keys j, k);
\* the aliases were answered and consumed, the second index-list request of
\* cluster b has just been sent and is on the request channel.  The logs
\* start at that request.
\* ------------------------------------------------------------------------

LateRequestsConsumed == NavRequestsSent \o <<FetchAliases("b")>>

LateResponses(indices) ==
    NavResponses(indices) \o <<ResponseEvent("Aliases", "b", Nil, <<"y", "x">>)>>

\* The index-list request in flight, under the id that follows the consumed ones
LateEnvelope == RequestEnvelope(Len(LateRequestsConsumed), FetchIndices("b"))

\* The view after the keys j, k, with the aliases applied in between
LateView(indices) ==
    LET v1 == navigate_component(NavView(indices), "ResourceList", "Down").view
        v2 == update_api_response(v1, LateResponses(indices)[4])
    IN  navigate_component(v2, "ResourceList", "Up").view

\* The events the operator produces in SpecLate: unfocus or leave, focus of
\* the index table, Down, Enter
LateInputs == [code : {"Esc", "i", "j", "Enter"}, ctrl : {FALSE}]

InitLate ==
    /\ \E indices \in NameLists :
          /\ view = LateView(indices)
          /\ history = HistoryOf(LateRequestsConsumed, LateResponses(indices))
    /\ next_request_id = Len(LateRequestsConsumed) + 1
    /\ now = 2 * Len(LateRequestsConsumed) + 1
    /\ in_flights = MapInsert(EmptyMap, LateEnvelope.request_id,
                              [at |-> now, request |-> LateEnvelope.event])
    /\ in_flight_requests = 1
    /\ req_ch = <<LateEnvelope>>
    /\ res_ch = << >>
    /\ api_handler = "running"
    /\ tasks = << >>
    /\ pc = "draw"
    /\ outbox = << >>
    /\ blocked = None
    /\ issued = <<[envelope |-> LateEnvelope, at |-> now]>>
    /\ received = << >>
    /\ handled = << >>
    /\ delivered = << >>
    /\ consumed = << >>
    /\ event_stream = << >>

NextLate ==
    \/ \E input \in LateInputs :
          Input(input, Len(LateRequestsConsumed) + MaxRequests)
    \/ SendRequest
    \/ Draw
    \/ RecvResponse
    \/ ApiRecv
    \/ \E i \in 1..Len(tasks) : \E result \in handle(tasks[i].event) :
           TaskComplete(i, result)

SpecLate == InitLate /\ [][NextLate]_vars

\* ------------------------------------------------------------------------
\* View::focus called in any state.  The decoder produces FocusComponent only
\* while nothing is focused; here the FocusComponent arm of App::run is also
\* taken while a component is focused, as View::focus allows.
\* ------------------------------------------------------------------------

\* The components FocusComponent is produced for
FocusTargets ==
    {"ResourceTab", "ClusterList", "ResourceList", "IndexTable", "AliasTable"}

\* Command::FocusComponent(component) => view.focus(component)
FocusComponent(component) ==
    /\ pc = "select"
    /\ view' = focus(view, component)
    /\ pc' = "draw"
    /\ UNCHANGED <<transport_vars, dispatcher_vars, req_ch, res_ch, outbox,
                   blocked, consumed, event_stream>>

NextFocus ==
    \/ \E input \in Events : Input(input, Len(NavRequestsSent) + MaxRequests)
    \/ \E component \in FocusTargets : FocusComponent(component)
    \/ SendRequest
    \/ Draw

SpecFocus == InitNav /\ [][NextFocus]_vars

\* ------------------------------------------------------------------------
\* Navigate::inc_opt / dec_opt and ApplyNavigate on cursors drawn from
\* Option<usize>.  The run starts after the refresh of InitLate was answered
\* and consumed, with one of the lists or tables focused and its cursor drawn
\* (None and positions past the end of the collection included); the
\* operator produces navigation keys.  The logs start at this point.
\* ------------------------------------------------------------------------

\* What the backend answered to the second index-list request
CursorLists == {<< >>, <<"x">>, <<"y", "x">>, <<"x", ".k", "y">>}

CursorRequestsConsumed == LateRequestsConsumed \o <<FetchIndices("b")>>

CursorResponses(indices) ==
    LateResponses(<<"y", "x">>) \o <<ResponseEvent("Indices", "b", Nil, indices)>>

\* The lists and tables with a cursor
CursorComponents == {"ClusterList", "ResourceList", "IndexTable", "AliasTable"}

\* Option<usize> values of a cursor
Cursors == {NoneIdx} \cup 0..Len(RESOURCES)

\* ListState::select / TableState::select on the cursor of a component
WithCursor(v, component, cur) ==
    CASE component = "ClusterList" -> [v EXCEPT !.es.cluster_list_state = cur]
      [] component = "ResourceList" -> [v EXCEPT !.es.resource_list_state = cur]
      [] component = "IndexTable" -> [v EXCEPT !.es.index_table_state = cur]
      [] component = "AliasTable" -> [v EXCEPT !.es.alias_table_state = cur]

\* The events the operator produces in SpecCursor: the navigation keys
CursorInputs == [code : {"j", "k", "Up", "Down", "h", "Right"}, ctrl : {FALSE}]

InitCursor ==
    /\ \E indices \in CursorLists, component \in CursorComponents, cur \in Cursors :
          /\ view = WithCursor(
                        focus(unfocus(update_api_response(
                                          LateView(<<"y", "x">>),
                                          CursorResponses(indices)[5])),
                              component),
                        component, cur)
          /\ history = HistoryOf(CursorRequestsConsumed, CursorResponses(indices))
    /\ next_request_id = Len(CursorRequestsConsumed)
    /\ in_flights = EmptyMap
    /\ in_flight_requests = 0
    /\ req_ch = << >>
    /\ res_ch = << >>
    /\ api_handler = "running"
    /\ tasks = << >>
    /\ pc = "select"
    /\ outbox = << >>
    /\ blocked = None
    /\ now = 2 * Len(CursorRequestsConsumed)
    /\ issued = << >>
    /\ received = << >>
    /\ handled = << >>
    /\ delivered = << >>
    /\ consumed = << >>
    /\ event_stream = << >>

NextCursor ==
    \/ \E input \in CursorInputs :
          Input(input, Len(CursorRequestsConsumed) + MaxRequests)
    \/ SendRequest
    \/ Draw

SpecCursor == InitCursor /\ [][NextCursor]_vars

\* ------------------------------------------------------------------------
\* update_api_response on caches drawn from what earlier responses left.
\* The view holds the data of a sequence of responses consumed earlier; the
\* response of one more request is on the response channel and is consumed by
\* the response arm of App::run.  The logs start at that request.
\* ------------------------------------------------------------------------

\* The responses consumed earlier, in the order of their arrival
CacheHistories ==
    LET h1 == NavResponses(<<"y", "x">>)
        h2 == h1 \o <<ResponseEvent("Aliases", "b", Nil, <<"y", "x">>)>>
        h3 == h2 \o <<ResponseEvent("Index", "b", "x", <<"d1">>)>>
        h4 == h3 \o <<ResponseEvent("Index", "b", "y", <<"d2">>),
                      ResponseEvent("Indices", "a", Nil, <<"x", ".k", "y">>)>>
    IN  {<< >>, h1, h2, h3, h4}

\* View::update_api_response for each response of a sequence, in order
RECURSIVE ApplyResponses(_, _)
ApplyResponses(v, responses) ==
    IF responses = << >> THEN v
    ELSE ApplyResponses(update_api_response(v, Head(responses)), Tail(responses))

\* The request whose response is still to be consumed
CacheRequests ==
    {FetchCluster(c) : c \in Clients} \cup {FetchIndices(c) : c \in Clients}
    \cup {FetchAliases(c) : c \in Clients}
    \cup {FetchIndex("b", "x"), FetchIndex("b", "y"), FetchIndex("a", "x")}

InitCache ==
    /\ \E responses \in CacheHistories : view = ApplyResponses(NavKeysView, responses)
    /\ next_request_id = MaxRequests
    /\ now = 2 * MaxRequests
    /\ \E r \in CacheRequests :
          /\ in_flights = MapInsert(EmptyMap, MaxRequests - 1,
                                    [at |-> now - 1, request |-> r])
          /\ \E result \in handle(r) :
                res_ch = <<ResponseEnvelope(MaxRequests - 1, result)>>
    /\ in_flight_requests = 1
    /\ history = << >>
    /\ req_ch = << >>
    /\ api_handler = "running"
    /\ tasks = << >>
    /\ pc = "select"
    /\ outbox = << >>
    /\ blocked = None
    /\ issued = << >>
    /\ received = << >>
    /\ handled = << >>
    /\ delivered = << >>
    /\ consumed = << >>
    /\ event_stream = << >>

NextCache ==
    \/ RecvResponse
    \/ Draw

SpecCache == InitCache /\ [][NextCache]_vars

\* ------------------------------------------------------------------------
\* Quit while requests are in flight.  The run starts as SpecLate does, with
\* an index-list request on the request channel; the operator unfocuses,
\* focuses the index table, enters the detail view, or quits.
\* ------------------------------------------------------------------------

\* The events the operator produces in SpecQuit
QuitInputs ==
    [code : {"q", "Esc", "i", "Enter"}, ctrl : {FALSE}]
    \cup [code : {"c", "d"}, ctrl : {TRUE}]

NextQuit ==
    \/ \E input \in QuitInputs :
          Input(input, Len(LateRequestsConsumed) + MaxRequests)
    \/ SendRequest
    \/ Draw
    \/ RecvResponse
    \/ ApiRecv
    \/ ApiDone
    \/ \E i \in 1..Len(tasks) : \E result \in handle(tasks[i].event) :
           TaskComplete(i, result)

SpecQuit == InitLate /\ [][NextQuit]_vars

\* ------------------------------------------------------------------------
\* A burst of requests against a backend that does not answer.  After the
\* run of SpecNav's Init the operator pressed Down on the resource list
\* BurstUnits times; the dispatch loop received every envelope and spawned its
\* unit, and no unit has got an answer from its cluster yet.  The logs start
\* at this point.
\* ------------------------------------------------------------------------

\* The executing units the channels would hold if each slot were a unit
BurstUnits == ChannelCapacity + ChannelCapacity

\* The view and the requests after n presses of Down on the resource list:
\* those of the first half of the presses, then those of the second half
\* from the view the first half left
RECURSIVE BurstKeys(_, _)
BurstKeys(v, n) ==
    IF n = 0 THEN [view |-> v, requests |-> << >>]
    ELSE IF n = 1
    THEN LET r == navigate_component(v, "ResourceList", "Down")
         IN  [view |-> r.view, requests |-> Requests(r.requests)]
    ELSE LET before == BurstKeys(v, n \div 2)
         IN  IF Len(before.requests) >= 0
             THEN LET after == BurstKeys(before.view, n - (n \div 2))
                  IN  [view |-> after.view,
                       requests |-> before.requests \o after.requests]
             ELSE before

\* The events the operator produces in SpecBurst: Up and Down
BurstInputs == [code : {"j", "k"}, ctrl : {FALSE}]

InitBurst ==
    /\ \E indices \in NameLists :
          LET burst == BurstKeys(NavView(indices), BurstUnits)
              first == Len(NavRequestsSent)
              envelopes == [i \in 1..BurstUnits |->
                               RequestEnvelope(first + i - 1, burst.requests[i])]
          IN  /\ view = burst.view
              /\ history = NavHistory(indices)
              /\ tasks = envelopes
              /\ in_flights = [id \in first..(first + BurstUnits - 1) |->
                                  [at |-> 2 * first + (id - first) + 1,
                                   request |-> burst.requests[id - first + 1]]]
    /\ next_request_id = Len(NavRequestsSent) + BurstUnits
    /\ in_flight_requests = BurstUnits
    /\ now = 2 * Len(NavRequestsSent) + BurstUnits
    /\ req_ch = << >>
    /\ res_ch = << >>
    /\ api_handler = "running"
    /\ pc = "select"
    /\ outbox = << >>
    /\ blocked = None
    /\ issued = << >>
    /\ received = << >>
    /\ handled = << >>
    /\ delivered = << >>
    /\ consumed = << >>
    /\ event_stream = << >>

\* The units of the burst stay in their handler; those spawned later complete
NextBurst ==
    \/ \E input \in BurstInputs :
          Input(input, Len(NavRequestsSent) + BurstUnits + MaxRequests)
    \/ SendRequest
    \/ Draw
    \/ RecvResponse
    \/ ApiRecv
    \/ \E i \in (BurstUnits + 1)..Len(tasks) : \E result \in handle(tasks[i].event) :
           TaskComplete(i, result)

SpecBurst == InitBurst /\ [][NextBurst]_vars

\* ------------------------------------------------------------------------
\* Events waiting at the terminal.  The run starts as SpecLate does, with an
\* index-list request on the request channel; the events of the operator are
\* held by the stream until input.read takes them, so that an event and a
\* response can be ready at the same select.
\* ------------------------------------------------------------------------

\* The events the operator produces in SpecBiased: Down, Esc, and a key no
\* state decodes
BiasedInputs == [code : {"j", "Esc", "x"}, ctrl : {FALSE}]

NextBiased ==
    \/ \E input \in BiasedInputs : KeyEvent(input)
    \/ ReadIgnored
    \/ \E input \in BiasedInputs :
          Input(input, Len(LateRequestsConsumed) + MaxRequests)
    \/ SendRequest
    \/ Draw
    \/ RecvResponse
    \/ ApiRecv
    \/ \E i \in 1..Len(tasks) : \E result \in handle(tasks[i].event) :
           TaskComplete(i, result)

SpecBiased == InitLate /\ [][NextBiased]_vars

\* ------------------------------------------------------------------------
\* The request channel closed.  The state is that of SpecNav's Init, but the
\* task of ApiHandler::run is gone and req_rx with it: every req_tx.send
\* returns an error.
\* ------------------------------------------------------------------------

InitClosed ==
    /\ \E indices \in NameLists :
          /\ view = NavView(indices)
          /\ history = NavHistory(indices)
    /\ next_request_id = Len(NavRequestsSent)
    /\ in_flights = EmptyMap
    /\ in_flight_requests = 0
    /\ req_ch = << >>
    /\ res_ch = << >>
    /\ api_handler = "done"
    /\ tasks = << >>
    /\ pc = "select"
    /\ outbox = << >>
    /\ blocked = None
    /\ now = 2 * Len(NavRequestsSent)
    /\ issued = << >>
    /\ received = << >>
    /\ handled = << >>
    /\ delivered = << >>
    /\ consumed = << >>
    /\ event_stream = << >>

SpecClosed == InitClosed /\ [][NextNav]_vars

\* ------------------------------------------------------------------------
\* The operator keeps typing and never quits.  The run starts as SpecLate
\* does; every event goes through the stream of the terminal.
\* ------------------------------------------------------------------------

\* The events the operator produces in SpecTyping: Esc and Down
TypingInputs == [code : {"Esc", "j"}, ctrl : {FALSE}]

\* The ids of the requests of a run of SpecTyping
TypingIds ==
    Len(LateRequestsConsumed)..(Len(LateRequestsConsumed) + MaxRequests - 1)

\* input.read returns the command of the event at the front of the stream
ReadCommand ==
    /\ event_stream # << >>
    /\ Input(Head(event_stream), Len(LateRequestsConsumed) + MaxRequests)

\* The operator types a key.  Down is typed only while the requests of the
\* Downs on the stream and one more stay within those of the run, so that no
\* command waits for the cap on the requests.
TypingKey(input) ==
    /\ input.code = "j" =>
          next_request_id + Len(outbox)
             + Cardinality({i \in 1..Len(event_stream) : event_stream[i].code = "j"})
             < Len(LateRequestsConsumed) + MaxRequests
    /\ KeyEvent(input)

NextTyping ==
    \/ \E input \in TypingInputs : TypingKey(input)
    \/ ReadIgnored
    \/ ReadCommand
    \/ SendRequest
    \/ Draw
    \/ RecvResponse
    \/ ApiRecv
    \/ \E i \in 1..Len(tasks) : \E result \in handle(tasks[i].event) :
           TaskComplete(i, result)

\* The runtime keeps polling App::run, the dispatch loop and the units, and
\* every handler terminates.  A select that is polled with a response on the
\* channel and no command ready takes the response arm at once, so the arm is
\* taken if it can be taken again and again.  Nothing is assumed of the
\* operator.
SpecTyping ==
    /\ InitLate /\ [][NextTyping]_vars
    /\ WF_vars(Draw)
    /\ WF_vars(SendRequest)
    /\ WF_vars(ReadCommand)
    /\ WF_vars(ReadIgnored)
    /\ SF_vars(RecvResponse)
    /\ WF_vars(ApiRecv)
    /\ \A id \in TypingIds : WF_vars(TaskCompleteOf(id))

\* ------------------------------------------------------------------------
\* Both channels full.  After the run of SpecNav's Init the operator pressed
\* Down on the resource list FullRequests times with a command ready at every
\* select, so that no response was consumed.  The units of the first
\* ChannelCapacity requests have put their responses on the response channel,
\* the unit of the next request waits in res_tx.send, the dispatch loop has
\* not been polled since and the next ChannelCapacity envelopes are on the
\* request channel, and the send_request of the last Down is suspended in
\* req_tx.send.  The logs start at this point.
\* ------------------------------------------------------------------------

FullRequests == ChannelCapacity + 1 + ChannelCapacity + 1

\* The answer of the cluster to a request of the burst
BurstAnswer(req) ==
    Ok(ResponseEvent(ResponseKind(req), req.cluster_name, req.index,
                     IF req.kind = "FetchCluster" THEN <<"green">>
                     ELSE <<"y", "x">>))

InitFull ==
    /\ \E indices \in NameLists :
          LET burst == BurstKeys(NavView(indices), FullRequests)
              first == Len(NavRequestsSent)
              envelope(i) == RequestEnvelope(first + i - 1, burst.requests[i])
          IN  /\ view = burst.view
              /\ history = NavHistory(indices)
              /\ res_ch = [i \in 1..ChannelCapacity |->
                              ResponseEnvelope(first + i - 1,
                                               BurstAnswer(burst.requests[i]))]
              /\ tasks = <<envelope(ChannelCapacity + 1)>>
              /\ req_ch = [i \in 1..ChannelCapacity |->
                              envelope(ChannelCapacity + 1 + i)]
              /\ blocked = Some(envelope(FullRequests))
              /\ in_flights = [id \in first..(first + FullRequests - 1) |->
                                  [at |-> 2 * first + (id - first) + 1,
                                   request |-> burst.requests[id - first + 1]]]
    /\ next_request_id = Len(NavRequestsSent) + FullRequests
    /\ in_flight_requests = FullRequests
    /\ now = 2 * Len(NavRequestsSent) + FullRequests
    /\ api_handler = "running"
    /\ pc = "send"
    /\ outbox = << >>
    /\ issued = << >>
    /\ received = << >>
    /\ handled = << >>
    /\ delivered = << >>
    /\ consumed = << >>
    /\ event_stream = << >>

\* The operator types no more.  The unit that waits in res_tx.send completes
\* once the channel has room; the units of the envelopes taken off the request
\* channel stay in their handler.
NextFull ==
    \/ SendResume
    \/ Draw
    \/ RecvResponse
    \/ ApiRecv
    \/ \E i \in 1..Len(tasks) : \E result \in handle(tasks[i].event) :
           /\ tasks[i].request_id = Len(NavRequestsSent) + ChannelCapacity
           /\ TaskComplete(i, result)

\* The runtime keeps polling the dispatch loop, and App::run once the channel
\* has room for its send
SpecFull ==
    /\ InitFull /\ [][NextFull]_vars
    /\ WF_vars(ApiRecv)
    /\ WF_vars(SendResume)

\* ------------------------------------------------------------------------
\* An index list that comes back shorter.  The state is that of SpecLate's
\* Init with two indices of cluster b cached, but the unit of the index-list
\* request in flight has completed: its response, a list with one visible
\* index, is on the response channel.
\* ------------------------------------------------------------------------

\* The index lists the cluster answers with in SpecShrink
ShrinkLists == {<<"x">>, <<"y">>, <<".k", "y">>}

\* The events the operator produces in SpecShrink: unfocus, focus of the
\* cluster list and of the index table, Down, Up, Enter
ShrinkInputs == [code : {"Esc", "c", "i", "j", "k", "Enter"}, ctrl : {FALSE}]

InitShrink ==
    /\ view = LateView(<<"y", "x">>)
    /\ history = HistoryOf(LateRequestsConsumed, LateResponses(<<"y", "x">>))
    /\ next_request_id = Len(LateRequestsConsumed) + 1
    /\ now = 2 * Len(LateRequestsConsumed) + 1
    /\ in_flights = MapInsert(EmptyMap, LateEnvelope.request_id,
                              [at |-> now, request |-> LateEnvelope.event])
    /\ in_flight_requests = 1
    /\ req_ch = << >>
    /\ \E indices \in ShrinkLists :
          res_ch = <<ResponseEnvelope(
                        LateEnvelope.request_id,
                        Ok(ResponseEvent("Indices", "b", Nil, indices)))>>
    /\ api_handler = "running"
    /\ tasks = << >>
    /\ pc = "draw"
    /\ outbox = << >>
    /\ blocked = None
    /\ issued = << >>
    /\ received = << >>
    /\ handled = << >>
    /\ delivered = << >>
    /\ consumed = << >>
    /\ event_stream = << >>

\* The requests of SpecShrink: those consumed, the one whose response is on
\* the response channel, and MaxRequests more
ShrinkLimit == Len(LateRequestsConsumed) + 1 + MaxRequests

NextShrink ==
    \/ \E input \in ShrinkInputs : Input(input, ShrinkLimit)
    \/ SendRequest
    \/ Draw
    \/ RecvResponse

SpecShrink == InitShrink /\ [][NextShrink]_vars

\* ------------------------------------------------------------------------
\* Properties
\* ------------------------------------------------------------------------

IdsOf(log) == {log[i].request_id : i \in 1..Len(log)}
IssuedIds == {issued[i].envelope.request_id : i \in 1..Len(issued)}
NoRepeatedId(log) ==
    \A i, j \in 1..Len(log) : i # j => log[i].request_id # log[j].request_id

\* C1: the ids allocated by successive send_request calls are pairwise
\* distinct, and each is strictly greater than the one allocated just before.
C1_RequestIdsUniqueAndIncreasing ==
    /\ \A i, j \in 1..Len(issued) :
          i # j => issued[i].envelope.request_id # issued[j].envelope.request_id
    /\ \A i \in 2..Len(issued) :
          issued[i].envelope.request_id > issued[i - 1].envelope.request_id

C1_Witness == Len(issued) >= 2

\* C2: the in-flight table holds exactly the ids that were sent and whose
\* response recv_response has not consumed, each with the request and the
\* Instant of its send; no id is consumed twice, and every consumed response
\* carries an id that a send allocated.
C2_InFlightIsSentMinusConsumed ==
    /\ DOMAIN in_flights = IssuedIds \ IdsOf(consumed)
    /\ \A i \in 1..Len(issued) :
          issued[i].envelope.request_id \in DOMAIN in_flights =>
             in_flights[issued[i].envelope.request_id] =
                 [at |-> issued[i].at, request |-> issued[i].envelope.event]
    /\ NoRepeatedId(consumed)
    /\ IdsOf(consumed) \subseteq IssuedIds

C2_Witness ==
    /\ consumed # << >>
    /\ DOMAIN in_flights # {}
    /\ \E id \in DOMAIN in_flights : \A c \in IdsOf(consumed) : id < c

\* C3: a send_request raises the published in-flight count by one, a matched
\* recv_response lowers it by one, and the count is never negative.
C3_InFlightCountSteps ==
    [][/\ Len(issued') > Len(issued) =>
             in_flight_requests' = in_flight_requests + 1
       /\ (/\ Len(consumed') > Len(consumed)
           /\ consumed'[Len(consumed')].request_id \in DOMAIN in_flights) =>
             in_flight_requests' = in_flight_requests - 1
       /\ in_flight_requests >= 0
       /\ in_flight_requests' >= 0]_vars

C3_Witness ==
    /\ Len(issued) >= 2
    /\ consumed # << >>
    /\ in_flight_requests = 1

\* The entry of the issued log that send_request wrote for id
IssuedEntry(id) ==
    issued[CHOOSE i \in 1..Len(issued) : issued[i].envelope.request_id = id]

\* The response envelope that the step consumed (recv_response returned it)
Consuming == Len(consumed') > Len(consumed)
ConsumedNow == consumed'[Len(consumed')]
ConsumingMatched == Consuming /\ ConsumedNow.request_id \in DOMAIN in_flights

\* C4: whatever the completion order of the handler units, the record that
\* recv_response pushes for a response pairs it with the request and the
\* send Instant of the request that was sent under the response's id, and the
\* response is one the handler of that very request produces.
C4_RecordPairsResponseWithItsRequest ==
    [][ConsumingMatched =>
          /\ ConsumedNow.request_id \in IssuedIds
          /\ history' # << >>
          /\ Head(history').request =
                 IssuedEntry(ConsumedNow.request_id).envelope.event
          /\ Head(history').request_send = IssuedEntry(ConsumedNow.request_id).at
          /\ Head(history').response_received >= Head(history').request_send
          /\ Head(history').response.ok = ConsumedNow.result.ok
          /\ Head(history').response.event = ConsumedNow.result.event
          /\ ConsumedNow.result \in
                 handle(IssuedEntry(ConsumedNow.request_id).envelope.event)]_vars

\* Two responses were consumed in the order opposite to the order of their sends
C4_Witness ==
    /\ Len(history) >= 2
    /\ history[1].request_send < history[2].request_send
    /\ history[1].request # history[2].request

\* C5: a response envelope whose id is not in the in-flight table is dropped
\* by recv: no record is pushed, the in-flight count stays, the payload does
\* not reach the view (the data cache stays as it was), and the event loop
\* goes on.
C5_UnknownIdIsDropped ==
    [][(Consuming /\ ConsumedNow.request_id \notin DOMAIN in_flights) =>
          /\ history' = history
          /\ in_flight_requests' = in_flight_requests
          /\ in_flights' = in_flights
          /\ view' = view
          /\ pc' = "draw"]_vars

\* C6: consuming the response of a request whose handler failed pushes a
\* record whose outcome is the failure string, lowers the in-flight count by
\* one, leaves the view (and with it every entry of the data cache) as it was
\* and takes the event loop to its next iteration.
C6_FailureIsRecordedNotApplied ==
    [][(ConsumingMatched /\ ~ConsumedNow.result.ok) =>
          /\ history' # << >>
          /\ ~Head(history').response.ok
          /\ Head(history').response.event = None
          /\ Head(history').response.err # << >>
          /\ Head(Head(history').response.err) = "elasticsearch api error"
          /\ \A i \in 1..Len(Head(history').response.err) :
                \E j \in 1..Len(ConsumedNow.result.report) :
                   /\ ConsumedNow.result.report[j].frame = "Context"
                   /\ ConsumedNow.result.report[j].text =
                          Head(history').response.err[i]
          /\ in_flight_requests' = in_flight_requests - 1
          /\ view' = view
          /\ pc' = "draw"]_vars

\* The health of cluster a is cached, and the newest record is the failure of
\* a later request about cluster a
C6_Witness ==
    /\ history # << >>
    /\ ~Head(history).response.ok
    /\ Head(history).request.cluster_name = "a"
    /\ get_cluster_health(view.data, "a") # None
    /\ pc \in {"draw", "select"}

CountId(log, id) == Cardinality({i \in 1..Len(log) : log[i].request_id = id})

\* C7: every envelope the dispatch loop received has exactly one unit, either
\* still running or completed once; no id is received, handled, put on the
\* response channel or consumed twice; and consuming a response (a failure
\* included) sends nothing: no id is allocated, nothing is queued for sending
\* and nothing is put on the request channel.
C7_HandledOnceNeverResent ==
    [][/\ \A i \in 1..Len(received') :
             CountId(tasks', received'[i].request_id)
               + CountId(handled', received'[i].request_id) = 1
       /\ NoRepeatedId(received')
       /\ NoRepeatedId(handled')
       /\ NoRepeatedId(delivered')
       /\ NoRepeatedId(consumed')
       /\ \A i \in 1..Len(res_ch') : CountId(delivered', res_ch'[i].request_id) = 1
       /\ \A i \in 1..Len(consumed') :
             /\ CountId(delivered', consumed'[i].request_id) = 1
             /\ CountId(res_ch', consumed'[i].request_id) = 0
       /\ Consuming =>
             /\ issued' = issued
             /\ next_request_id' = next_request_id
             /\ req_ch' = req_ch
             /\ outbox' = outbox /\ outbox = << >>
             /\ blocked' = blocked /\ blocked = None
             /\ tasks' = tasks]_vars

\* A failure was consumed and the event loop went on
C7_Witness ==
    /\ consumed # << >>
    /\ ~consumed[1].result.ok
    /\ pc = "select"
    /\ Len(handled) = 2

\* The unit that completed in the step, and the response envelope it built
Completing == Len(handled') > Len(handled)
HandledNow == handled'[Len(handled')]

\* C9: a unit whose handler fails builds a response envelope that holds the
\* failure and the id of the request envelope it was spawned for, and puts it
\* on the response channel; the dispatch loop is still running after it, and
\* it stops only after App::run has returned.
C9_HandlerErrorBecomesResponse ==
    [][/\ (Completing /\ ~HandledNow.result.ok) =>
             /\ \E i \in 1..Len(tasks) :
                   /\ tasks[i].request_id = HandledNow.request_id
                   /\ HandledNow.result \in handle(tasks[i].event)
                   /\ tasks' = RemoveAt(tasks, i)
             /\ HandledNow.result.event = None
             /\ HandledNow.result.report # << >>
             /\ pc # "done" => res_ch' = Append(res_ch, HandledNow)
             /\ api_handler' = api_handler
             /\ req_ch' = req_ch
       /\ api_handler' = "done" => pc' = "done"
       /\ (api_handler = "running" /\ req_ch # << >>) => ENABLED ApiRecv]_vars

\* A failure was handled for the first request, consumed, and the request
\* sent after that was received and handled as well
C9_Witness ==
    /\ Len(handled) = 2
    /\ ~handled[1].result.ok
    /\ Len(history) >= 1
    /\ Len(issued) = 2
    /\ history[Len(history)].response_received < issued[2].at
    /\ ~history[Len(history)].response.ok
    /\ api_handler = "running"

IdSeq(log) == [i \in 1..Len(log) |-> log[i].request_id]

\* C10: the dispatch loop receives the request envelopes in the order of
\* their sends: the ids received, then those waiting in the request channel,
\* then the one suspended in the send, are the ids allocated, in that order.
C10_RequestsReceivedInIssueOrder ==
    IdSeq(received) \o IdSeq(req_ch) \o IdSeq(blocked) =
        [i \in 1..Len(issued) |-> issued[i].envelope.request_id]

C10_Witness ==
    /\ Len(received) >= 1
    /\ Len(req_ch) >= 1
    /\ tasks # << >>

\* C8: the dispatch loop does not wait for the units it spawned: with the
\* handler of the first request free never to complete, every later request
\* that is on the request channel is received and handled, and its response
\* is put on the response channel (unless App::run has returned by then).
C8_NoHeadOfLineBlocking ==
    \A id \in 1..MaxRequests :
       (id \in IdsOf(req_ch)) ~>
           (\/ id \in IdsOf(delivered)
            \/ id \in IdsOf(handled) /\ pc = "done")

\* The response of the second request was consumed while the unit of the first
\* one is still running
C8_Witness ==
    /\ \E i \in 1..Len(tasks) : tasks[i].request_id = 0
    /\ 1 \in IdsOf(consumed)

\* C11: the history never holds more than 2 * HISTORY_SIZE records; a push
\* onto a history of 2 * HISTORY_SIZE records leaves the pushed record and the
\* HISTORY_SIZE - 1 newest of the earlier ones, any other push keeps them all;
\* the records are ordered newest first, and the head (latest_transport) is
\* the record of the response consumed last.
C11_HistoryBoundedNewestFirst ==
    [][/\ Len(history) <= 2 * HISTORY_SIZE
       /\ Len(history') <= 2 * HISTORY_SIZE
       /\ \A i \in 1..(Len(history') - 1) :
             history'[i].response_received > history'[i + 1].response_received
       /\ ConsumingMatched =>
             /\ latest_transport' # None
             /\ latest_transport'[1].request =
                    in_flights[ConsumedNow.request_id].request
             /\ latest_transport'[1].response.ok = ConsumedNow.result.ok
             /\ latest_transport'[1].response.event = ConsumedNow.result.event
             /\ latest_transport'[1].response_received = now'
             /\ IF Len(history) + 1 > 2 * HISTORY_SIZE
                THEN /\ Len(history') = HISTORY_SIZE
                     /\ \A i \in 2..HISTORY_SIZE : history'[i] = history[i - 1]
                ELSE /\ Len(history') = Len(history) + 1
                     /\ \A i \in 2..Len(history') : history'[i] = history[i - 1]
       /\ ~ConsumingMatched => history' = history]_vars

\* A push truncated the history, and a later push went on top of it
C11_Witness ==
    /\ Len(history) = HISTORY_SIZE + 1
    /\ Len(consumed) = 2
    /\ history[1].response_received = now
    /\ history[3] = LongRunRecord(HISTORY_SIZE * 2 - 1)

\* The Enter key, and the step of the command arm that handles it
EnterKey == [code |-> "Enter", ctrl |-> FALSE]
EnterPressed == Input(EnterKey, Len(NavRequestsSent) + MaxRequests)

\* The rows of the index table of cluster b: the cached names that do not
\* start with a dot, in the order of String::cmp
IndexRows ==
    IF "b" \in DOMAIN view.data /\ IsSome(view.data["b"].indices)
    THEN SelectSeq(NameOrder,
                   LAMBDA n : /\ \E i \in 1..Len(view.data["b"].indices[1]) :
                                    view.data["b"].indices[1][i] = n
                              /\ ~StartsWithDot(n))
    ELSE << >>

EnterOnRow ==
    /\ view.state.selected_resource = "Elasticsearch"
    /\ view.es.resource_list_state = 1
    /\ view.es.cluster_list_state = 1
    /\ "b" \in DOMAIN view.data
    /\ IsSome(view.data["b"].indices)
    /\ view.state.focused_component = "IndexTable"
    /\ view.es.index_table_state >= 0
    /\ view.es.index_table_state < Len(IndexRows)

\* C12: with Elasticsearch, cluster b and resource Index selected, the index
\* list of b cached and the focused index table's cursor on one of its rows,
\* the Enter key hands exactly one request to send_requests, the index-detail
\* request for cluster b and the name on that row; that name becomes the
\* drill-down key, the detail component becomes the entered one, and the
\* request is the next one sent.
C12_EnterRequestsDetailOfRow ==
    [][/\ (EnterOnRow /\ EnterPressed) =>
             LET name == IndexRows[view.es.index_table_state + 1]
             IN  /\ outbox' = <<FetchIndex("b", name)>>
                 /\ pc' = "send"
                 /\ issued' = issued
                 /\ view'.es.detail_index_name = name
                 /\ view'.state.entered_component = "IndexDetail"
       /\ Len(issued') > Len(issued) =>
             /\ outbox # << >>
             /\ issued'[Len(issued')].envelope.event = Head(outbox)
             /\ outbox' = Tail(outbox)]_vars

\* Enter was pressed on the second row (y) and its request was sent
C12_Witness ==
    /\ view.state.entered_component = "IndexDetail"
    /\ view.es.index_table_state = 1
    /\ view.es.detail_index_name = "y"
    /\ Len(issued) = 1
    /\ issued[1].envelope.event = FetchIndex("b", "y")
    /\ outbox = << >>

\* C13: a request stays in the in-flight table, under its own id and with its
\* own entry, until its own response is consumed, whatever is sent in between
\* (the index-detail request of Enter included); and consuming the response
\* of an index-list request leaves every cached index detail, the drill-down
\* key and the entered component as they were.
C13_LateListKeepsDetail ==
    [][/\ \A id \in DOMAIN in_flights :
             IF id \in DOMAIN in_flights'
             THEN in_flights'[id] = in_flights[id]
             ELSE Consuming /\ ConsumedNow.request_id = id
       /\ (Consuming /\ ConsumedNow.result.ok
             /\ ConsumedNow.result.event[1].kind = "Indices") =>
             /\ \A c \in DOMAIN view.data :
                   /\ c \in DOMAIN view'.data
                   /\ view'.data[c].index = view.data[c].index
             /\ view'.es.detail_index_name = view.es.detail_index_name
             /\ view'.state.entered_component = view.state.entered_component
             /\ view.es.detail_index_name # Nil =>
                   get_index(view'.data, "b", view.es.detail_index_name) =
                       get_index(view.data, "b", view.es.detail_index_name)]_vars

\* The detail of the entered index was answered and cached first; the list
\* request sent before it was answered last, with a list that no longer has
\* the entered index
C13_Witness ==
    /\ Len(consumed) = 2
    /\ consumed[1].request_id > consumed[2].request_id
    /\ consumed[1].result.ok
    /\ consumed[1].result.event[1].kind = "Index"
    /\ consumed[2].result.ok
    /\ consumed[2].result.event[1].kind = "Indices"
    /\ consumed[2].result.event[1].response = << >>
    /\ view.state.entered_component = "IndexDetail"
    /\ view.es.detail_index_name # Nil
    /\ get_index(view.data, "b", view.es.detail_index_name) # None

\* The step of the command arm that handles an event decoded to the command
NavLimit == Len(NavRequestsSent) + MaxRequests
Handling(type) ==
    \E input \in Events :
       /\ input_handle(input, view.state).type = type
       /\ Input(input, NavLimit)

\* C14: handling a Leave command leaves no component entered and no
\* drill-down key, whatever the state it is handled in and whether or not
\* requests are in flight, and the event loop goes on.
C14_LeaveClearsEnteredAndKey ==
    [][Handling("Leave") =>
          /\ view'.state.entered_component = Nil
          /\ view'.es.detail_index_name = Nil
          /\ pc' = "draw"]_vars

\* Leave was handled while the index-detail request of the Enter before it
\* was in flight
C14_Witness ==
    /\ \E id \in DOMAIN in_flights : in_flights[id].request.kind = "FetchIndex"
    /\ view.state.entered_component = Nil
    /\ view.es.detail_index_name = Nil
    /\ pc = "draw"
    /\ outbox = << >>

\* C15: handling a Leave command hands to send_requests the requests of
\* fetch_data evaluated on the state after the Leave (the index-list request
\* of the selected cluster, when the resource list is on Index).
C15_LeaveRefreshesList ==
    [][Handling("Leave") =>
          /\ outbox' = Requests(fetch_data(view'.es))
          /\ pc' = IF outbox' = << >> THEN "draw" ELSE "send"]_vars

\* C16: the entered component is always unset or the index detail, the one
\* component with a drill-down; and no step changes the selected top-level
\* resource while a component is entered.
C16_EnteredOnlyDrillDown ==
    [][/\ view.state.entered_component \in {Nil, "IndexDetail"}
       /\ view'.state.entered_component \in {Nil, "IndexDetail"}
       /\ view'.state.selected_resource # view.state.selected_resource =>
             /\ view.state.entered_component = Nil
             /\ view'.state.entered_component = Nil]_vars

\* The index detail was entered and left, and the top-level resource was
\* changed after that
C16_Witness ==
    /\ \E i \in 1..Len(issued) : issued[i].envelope.event.kind = "FetchIndex"
    /\ view.state.selected_resource = "Mongo"
    /\ view.state.entered_component = Nil

\* C17: while the index detail is entered, the selected top-level resource is
\* Elasticsearch and the selection of the Elasticsearch resource list is Index.
C17_EnteredImpliesResourceSelected ==
    view.state.entered_component = "IndexDetail" =>
        /\ view.state.selected_resource = "Elasticsearch"
        /\ es_selected_resource(view.es) = Some("Index")

\* The component-local focus flags of a view agree with its focused component
FlagsAgree(v) ==
    /\ v.resource_tab.is_focused <=> v.state.focused_component = "ResourceTab"
    /\ v.es.focused =
           IF v.state.focused_component \in ElasticsearchComponentKind
           THEN v.state.focused_component
           ELSE Nil
    /\ ~(v.resource_tab.is_focused /\ v.es.focused # Nil)

\* What a step that focuses component c leaves
Focused(c) ==
    /\ view'.state.focused_component = c
    /\ view'.resource_tab.is_focused = (c = "ResourceTab")
    /\ view'.es.focused = (IF c = "ResourceTab" THEN Nil ELSE c)
    /\ view'.state.entered_component = view.state.entered_component
    /\ view'.state.selected_resource = view.state.selected_resource
    /\ view'.resource_tab.selected = view.resource_tab.selected
    /\ [view'.es EXCEPT !.focused = Nil] = [view.es EXCEPT !.focused = Nil]
    /\ view'.data = view.data
    /\ focus(view', c) = view'

\* C18: at most one component is focused and the component-local flags agree
\* with the view state (the resource tab's flag is set iff the resource tab is
\* focused, the Elasticsearch component's focus is the focused Elasticsearch
\* component or unset); a step that focuses a component, from whatever focus,
\* ends with that component focused and only its flag set, changes nothing
\* else of the view, and focusing it once more changes nothing.
C18_SingleFocusFlagsAgree ==
    [][/\ FlagsAgree(view)
       /\ FlagsAgree(view')
       /\ \A c \in FocusTargets : FocusComponent(c) => Focused(c)
       /\ pc = "select" =>
             \A input \in Events :
                (/\ input_handle(input, view.state).type = "FocusComponent"
                 /\ Input(input, NavLimit)) =>
                    Focused(input_handle(input, view.state).component)]_vars

\* The resource tab was focused while the index table was: the index detail
\* is still entered, which no Unfocus in between would have allowed
C18_Witness ==
    /\ view.state.focused_component = "ResourceTab"
    /\ view.resource_tab.is_focused
    /\ view.es.focused = Nil
    /\ view.state.entered_component = "IndexDetail"

\* C19: an Esc key event is decoded, while a component is entered, to Leave
\* of that component, and the step that handles it keeps the focus; it is
\* decoded to UnfocusComponent only while no component is entered.
C19_EscLeavesBeforeUnfocus ==
    [][pc = "select" =>
          \A input \in Events :
             (key_code(input) = "Esc" /\ Input(input, NavLimit)) =>
                IF view.state.entered_component # Nil
                THEN /\ input_handle(input, view.state) =
                            Command("Leave", view.state.entered_component, Nil)
                     /\ view'.state.entered_component = Nil
                     /\ view'.state.focused_component = view.state.focused_component
                     /\ view'.es.focused = view.es.focused
                ELSE /\ input_handle(input, view.state) =
                            Command("UnfocusComponent", Nil, Nil)
                     /\ view'.state.focused_component = Nil]_vars

\* Esc was handled while the index detail was entered: it is left, and the
\* index table is still focused
C19_Witness ==
    /\ \E i \in 1..Len(issued) : issued[i].envelope.event.kind = "FetchIndex"
    /\ view.state.entered_component = Nil
    /\ view.state.focused_component = "IndexTable"
    /\ view.es.focused = "IndexTable"
    /\ pc = "select"

\* The names of a cached list that the table shows: those that do not start
\* with a dot, in the order of String::cmp
RowsOf(cached) ==
    IF IsSome(cached)
    THEN SelectSeq(NameOrder,
                   LAMBDA n : /\ \E i \in 1..Len(cached[1]) : cached[1][i] = n
                              /\ ~StartsWithDot(n))
    ELSE << >>

\* The cursor of a list or table, and the number of its elements
CursorOf(v, component) ==
    CASE component = "ClusterList" -> v.es.cluster_list_state
      [] component = "ResourceList" -> v.es.resource_list_state
      [] component = "IndexTable" -> v.es.index_table_state
      [] component = "AliasTable" -> v.es.alias_table_state

LenOf(v, component) ==
    CASE component = "ClusterList" -> Len(Configs)
      [] component = "ResourceList" -> Len(RESOURCES)
      [] component = "IndexTable" ->
            IF v.es.cluster_list_state = 1 /\ "b" \in DOMAIN v.data
            THEN Len(RowsOf(v.data["b"].indices)) ELSE 0
      [] component = "AliasTable" ->
            IF v.es.cluster_list_state = 1 /\ "b" \in DOMAIN v.data
            THEN Len(RowsOf(v.data["b"].aliases)) ELSE 0

\* C20: on a list or table of n >= 1 elements, Down moves the cursor from the
\* last index n - 1 to 0 and from any other index i to i + 1; Up moves it from
\* index 0 and from no selection to n - 1 and from any other index i to i - 1.
C20_CursorWrapsCyclically ==
    [][pc = "select" =>
          \A input \in CursorInputs :
             LET command == input_handle(input, view.state)
                 c == command.component
                 n == LenOf(view, c)
                 i == CursorOf(view, c)
                 j == CursorOf(view', c)
             IN  (/\ command.type = "NavigateComponent"
                  /\ c \in CursorComponents
                  /\ Input(input, Len(CursorRequestsConsumed) + MaxRequests)
                  /\ n >= 1) =>
                    /\ (command.navigate = "Down" /\ i = n - 1) => j = 0
                    /\ (command.navigate = "Down" /\ i >= 0 /\ i < n - 1) =>
                          j = i + 1
                    /\ (command.navigate = "Up" /\ i \in {0, NoneIdx}) =>
                          j = n - 1
                    /\ (command.navigate = "Up" /\ i > 0 /\ i <= n - 1) =>
                          j = i - 1
                    /\ command.navigate \in {"Left", "Right"} => j = i]_vars

\* The resource list went from Alias, its last element, to Cluster, its
\* first: the requests of the two moves were sent
C20_Witness ==
    /\ view.state.focused_component = "ResourceList"
    /\ view.es.resource_list_state = 0
    /\ Len(issued) = 2
    /\ issued[1].envelope.event = FetchAliases("b")
    /\ issued[2].envelope.event = FetchCluster("b")

\* C21: on a list or table without elements (n = 0), Up and Down leave the
\* cursor as it was, be it no selection or any index, and the event loop
\* goes on.
C21_EmptyCollectionKeepsCursor ==
    [][pc = "select" =>
          \A input \in CursorInputs :
             LET command == input_handle(input, view.state)
                 c == command.component
             IN  (/\ command.type = "NavigateComponent"
                  /\ command.navigate \in {"Up", "Down"}
                  /\ c \in CursorComponents
                  /\ Input(input, Len(CursorRequestsConsumed) + MaxRequests)
                  /\ LenOf(view, c) = 0) =>
                    /\ CursorOf(view', c) = CursorOf(view, c)
                    /\ pc' # "done"]_vars

\* C22: a Left or Right on the resource tab that changes the selected
\* top-level resource hands to send_requests the requests the view asks for in
\* the state after it (those of pre_render_loop: the fetch_data of the
\* Elasticsearch component when Elasticsearch is the selected resource).
C22_ResourceTabRefreshes ==
    [][pc = "select" =>
          \A input \in Events :
             (/\ input_handle(input, view.state).type = "NavigateComponent"
              /\ input_handle(input, view.state).component = "ResourceTab"
              /\ Input(input, NavLimit)
              /\ view'.state.selected_resource # view.state.selected_resource) =>
                /\ outbox' = Requests(pre_render_loop(view').requests)
                /\ pc' = IF outbox' = << >> THEN "draw" ELSE "send"]_vars

\* The one request for a cluster-list cursor and a resource-list cursor,
\* outside a drill-down
ListRequest(cluster, resource) ==
    CASE resource = 0 -> FetchCluster(Configs[cluster + 1])
      [] resource = 1 -> FetchIndices(Configs[cluster + 1])
      [] resource = 2 -> FetchAliases(Configs[cluster + 1])

\* C23: an Up or Down on the cluster list or on the resource list hands to
\* send_requests exactly the requests of fetch_data in the state after it:
\* one request, for the cluster and the resource kind now selected; a Left or
\* Right on those lists changes nothing of the view and sends nothing.
C23_ListNavigationRefreshes ==
    [][pc = "select" =>
          \A input \in Events :
             LET command == input_handle(input, view.state)
             IN  (/\ command.type = "NavigateComponent"
                  /\ command.component \in {"ClusterList", "ResourceList"}
                  /\ Input(input, NavLimit)) =>
                    IF command.navigate \in {"Up", "Down"}
                    THEN /\ outbox' = Requests(fetch_data(view'.es))
                         /\ outbox' = <<ListRequest(view'.es.cluster_list_state,
                                                    view'.es.resource_list_state)>>
                         /\ pc' = "send"
                         /\ CursorOf(view', command.component) #
                                CursorOf(view, command.component)
                    ELSE /\ view' = view
                         /\ outbox' = << >>
                         /\ pc' = "draw"]_vars

\* The cluster list went Down from b to a with the resource list on Index,
\* and the index-list request of a was sent
C23_Witness ==
    /\ view.state.focused_component = "ClusterList"
    /\ view.es.cluster_list_state = 0
    /\ view.es.resource_list_state = 1
    /\ Len(issued) = 1
    /\ issued[1].envelope.event = FetchIndices("a")
    /\ outbox = << >>

\* C24: a navigation of the index table or of the alias table, in any
\* direction, changes at most the cursor of that table: nothing is handed to
\* send_requests, and the data cache, the focus, the entered component, the
\* drill-down key and the other cursors stay as they were.
C24_TableNavigationMovesCursorOnly ==
    [][pc = "select" =>
          \A input \in Events :
             LET command == input_handle(input, view.state)
             IN  (/\ command.type = "NavigateComponent"
                  /\ command.component \in {"IndexTable", "AliasTable"}
                  /\ Input(input, NavLimit)) =>
                    /\ outbox' = << >>
                    /\ pc' = "draw"
                    /\ issued' = issued
                    /\ view'.data = view.data
                    /\ view'.state = view.state
                    /\ view'.resource_tab = view.resource_tab
                    /\ view'.es.detail_index_name = view.es.detail_index_name
                    /\ view' = WithCursor(view, command.component,
                                          CursorOf(view', command.component))
                    /\ command.navigate \in {"Left", "Right"} => view' = view]_vars

\* The cursor of the index table was moved to its second row while the index
\* detail was entered and its request in flight
C24_Witness ==
    /\ view.state.focused_component = "IndexTable"
    /\ view.state.entered_component = "IndexDetail"
    /\ view.es.detail_index_name = "x"
    /\ view.es.index_table_state = 1
    /\ Len(issued) = 1
    /\ pc = "select"

\* The requests that the navigation state alone asks for: those of the
\* cluster and resource selected, narrowed to the drill-down key when one is
\* set and the resource is Index
PlanOf(st) ==
    IF st.cluster_list_state \in 0..(Len(Configs) - 1)
       /\ st.resource_list_state \in 0..(Len(RESOURCES) - 1)
    THEN IF st.resource_list_state = 1 /\ st.detail_index_name # Nil
         THEN <<FetchIndex(Configs[st.cluster_list_state + 1],
                           st.detail_index_name)>>
         ELSE <<ListRequest(st.cluster_list_state, st.resource_list_state)>>
    ELSE << >>

\* C25: the requests of fetch_data are determined by the navigation state
\* alone, whatever the data cache and the transport hold; the call itself
\* changes neither the navigation state nor the data cache (pre_render_loop,
\* which only calls it, returns the view it was given, and the steps that call
\* it keep the data cache); and a second call in an unchanged state (Enter
\* pressed again on the row already entered) asks for the same requests as
\* the call before it.
C25_FetchDataIsPure ==
    [][/\ pre_render_loop(view).view = view
       /\ view.state.selected_resource = "Elasticsearch" =>
             Requests(pre_render_loop(view).requests) = PlanOf(view.es)
       /\ Requests(fetch_data(view.es)) = PlanOf(view.es)
       /\ (pc = "select" /\ outbox' # << >>) =>
             /\ outbox' = PlanOf(view'.es)
             /\ view'.data = view.data
       /\ (pc = "select" /\ EnterPressed /\ view' = view) =>
             /\ issued # << >>
             /\ outbox' = <<issued[Len(issued)].envelope.event>>]_vars

\* Enter was pressed twice on the same row: the same index-detail request
\* was sent twice
C25_Witness ==
    /\ Len(issued) = 2
    /\ issued[1].envelope.event = FetchIndex("b", "x")
    /\ issued[2].envelope.event = issued[1].envelope.event
    /\ view.es.detail_index_name = "x"

\* The entry of a cluster in a cache, that of a cluster never written to when
\* the cluster is missing
EntryOf(d, cluster) ==
    IF cluster \in DOMAIN d THEN d[cluster]
    ELSE [health |-> << >>, indices |-> << >>, aliases |-> << >>,
          index |-> [x \in {} |-> Nil]]

\* The snapshot holds the entries of the payload, each once, and no other
SameEntries(snapshot, payload) ==
    /\ Len(snapshot) = Len(payload)
    /\ \A n \in {NameOrder[i] : i \in 1..Len(NameOrder)} :
          Cardinality({i \in 1..Len(snapshot) : snapshot[i] = n}) =
              Cardinality({i \in 1..Len(payload) : payload[i] = n})

\* C26: consuming a successful response of a kind for a cluster puts the
\* payload in place of the cached snapshot of that kind for that cluster, with
\* none of the old entries kept, and leaves the other kinds of that cluster,
\* its index details and every other cluster as they were; an index-detail
\* response puts its payload under its index name and leaves the other
\* details, the snapshots and every other cluster as they were.
C26_ResponseReplacesItsSnapshot ==
    [][(Consuming /\ ConsumedNow.result.ok) =>
          LET ev == ConsumedNow.result.event[1]
              old == EntryOf(view.data, ev.cluster_name)
              new == EntryOf(view'.data, ev.cluster_name)
          IN  /\ DOMAIN view'.data = DOMAIN view.data \cup {ev.cluster_name}
              /\ \A c \in DOMAIN view.data \ {ev.cluster_name} :
                    view'.data[c] = view.data[c]
              /\ CASE ev.kind = "ClusterHealth" ->
                        /\ new.health = <<ev.response>>
                        /\ new = [old EXCEPT !.health = new.health]
                   [] ev.kind = "Indices" ->
                        /\ Len(new.indices) = 1
                        /\ SameEntries(new.indices[1], ev.response)
                        /\ new = [old EXCEPT !.indices = new.indices]
                   [] ev.kind = "Aliases" ->
                        /\ Len(new.aliases) = 1
                        /\ SameEntries(new.aliases[1], ev.response)
                        /\ new = [old EXCEPT !.aliases = new.aliases]
                   [] ev.kind = "Index" ->
                        /\ DOMAIN new.index = DOMAIN old.index \cup {ev.index}
                        /\ new.index[ev.index] = ev.response
                        /\ \A n \in DOMAIN old.index \ {ev.index} :
                              new.index[n] = old.index[n]
                        /\ new = [old EXCEPT !.index = new.index]]_vars

\* An empty index list took the place of the cached one of cluster b; the
\* details, the aliases and the health of b are still cached
C26_Witness ==
    /\ Len(consumed) = 1
    /\ consumed[1].result.ok
    /\ consumed[1].result.event[1].kind = "Indices"
    /\ consumed[1].result.event[1].cluster_name = "b"
    /\ consumed[1].result.event[1].response = << >>
    /\ view.data["b"].indices = <<<< >>>>
    /\ DOMAIN view.data["b"].index = {"x", "y"}
    /\ view.data["b"].aliases # << >>
    /\ view.data["b"].health # << >>

\* How many times a name occurs in a list
Occurrences(s, n) == Cardinality({i \in 1..Len(s) : s[i] = n})

\* The read of the list a response of the kind writes
VisibleOf(d, ev, filter) ==
    IF ev.kind = "Indices" THEN get_visible_indices(d, ev.cluster_name, filter)
    ELSE get_visible_aliases(d, ev.cluster_name, filter)

\* C27: the filter acts on reading only: after an index-list or alias-list
\* response is written, the read without a filter returns every entry of the
\* payload, those whose name starts with '.' included, and the read with the
\* filter returns the same entries less the names starting with '.'.
C27_FilterOnReadOnly ==
    [][(/\ Consuming
        /\ ConsumedNow.result.ok
        /\ ConsumedNow.result.event[1].kind \in {"Indices", "Aliases"}) =>
          LET ev == ConsumedNow.result.event[1]
              all == VisibleOf(view'.data, ev, None)
              shown == VisibleOf(view'.data, ev, Some("Internal"))
          IN  /\ IsSome(all)
              /\ IsSome(shown)
              /\ \A n \in {NameOrder[i] : i \in 1..Len(NameOrder)} :
                    /\ Occurrences(all[1], n) = Occurrences(ev.response, n)
                    /\ Occurrences(shown[1], n) =
                          IF n \in {".k"} THEN 0 ELSE Occurrences(ev.response, n)]_vars

\* An alias list with a name starting with '.' was written: the name is
\* stored and returned by the read without a filter, and hidden by the filter
C27_Witness ==
    /\ Len(consumed) = 1
    /\ consumed[1].result.ok
    /\ consumed[1].result.event[1].kind = "Aliases"
    /\ consumed[1].result.event[1].cluster_name = "b"
    /\ Occurrences(consumed[1].result.event[1].response, ".k") = 1
    /\ Occurrences(get_visible_aliases(view.data, "b", None)[1], ".k") = 1
    /\ Occurrences(get_visible_aliases(view.data, "b", Some("Internal"))[1], ".k") = 0
    /\ Len(get_visible_aliases(view.data, "b", Some("Internal"))[1]) = 2

\* The step handles a Leave command in SpecLate
LateLeaving ==
    /\ pc = "select"
    /\ \E input \in LateInputs :
          /\ input_handle(input, view.state).type = "Leave"
          /\ Input(input, Len(LateRequestsConsumed) + MaxRequests)

\* The step consumes the response of an index-detail request in flight
ConsumingDetail ==
    /\ ConsumingMatched
    /\ in_flights[ConsumedNow.request_id].request.kind = "FetchIndex"

\* C28: handling Leave removes no request from the in-flight table, the
\* channels or the running units; an index-detail request that was sent and
\* whose response was not yet consumed is in the in-flight table; and when its
\* response is consumed, whether or not the detail view is still entered, a
\* record of the request is pushed in front of the history, its id leaves the
\* table, the count goes down by one, and a successful payload is cached under
\* the cluster and index of the request.
C28_LeaveKeepsDetailRequestInFlight ==
    [][/\ LateLeaving =>
             /\ in_flights' = in_flights
             /\ in_flight_requests' = in_flight_requests
             /\ req_ch' = req_ch
             /\ tasks' = tasks
             /\ res_ch' = res_ch
       /\ \A i \in 1..Len(issued) :
             (/\ issued[i].envelope.event.kind = "FetchIndex"
              /\ issued[i].envelope.request_id \notin IdsOf(consumed)) =>
                 /\ issued[i].envelope.request_id \in DOMAIN in_flights
                 /\ in_flights[issued[i].envelope.request_id].request =
                       issued[i].envelope.event
       /\ ConsumingDetail =>
             LET id == ConsumedNow.request_id
                 req == in_flights[id].request
             IN  /\ Len(history') = Len(history) + 1
                 /\ history'[1].request = req
                 /\ history'[1].response = TransportResponse(ConsumedNow.result)
                 /\ id \notin DOMAIN in_flights'
                 /\ in_flight_requests' = in_flight_requests - 1
                 /\ ConsumedNow.result.ok =>
                       get_index(view'.data, req.cluster_name, req.index) =
                           <<ConsumedNow.result.event[1].response>>]_vars

\* The detail view was left while its request was in flight: nothing is
\* entered, the id of the request is still in the table, and its successful
\* response is the next one the event loop consumes
C28_Witness ==
    /\ view.state.entered_component = Nil
    /\ view.es.detail_index_name = Nil
    /\ pc = "select"
    /\ res_ch # << >>
    /\ Head(res_ch).result.ok
    /\ Head(res_ch).result.event[1].kind = "Index"
    /\ Head(res_ch).request_id \in DOMAIN in_flights
    /\ in_flights[Head(res_ch).request_id].request.kind = "FetchIndex"
    /\ get_index(view.data, "b", Head(res_ch).result.event[1].index) = None
    /\ ENABLED RecvResponse

\* The quit keys: q, Ctrl-C and Ctrl-D
QuitKeys ==
    {[code |-> "q", ctrl |-> FALSE], [code |-> "c", ctrl |-> TRUE],
     [code |-> "d", ctrl |-> TRUE]}

\* Every value of ViewState
ViewStates ==
    [focused_component : FocusTargets \cup {Nil},
     entered_component : {Nil, "IndexDetail"},
     selected_resource : {ResourceKindVariants[i] : i \in 1..Len(ResourceKindVariants)}]

\* C29: a quit key decodes to QuitApp in every ViewState, among them those in
\* which the same key code without the modifier decodes to a focus command;
\* handling it ends App::run; and once App::run has ended the view, the
\* controller, the consumed responses and the response channel stay as they
\* are, whatever is in flight.
C29_QuitAlwaysEndsLoop ==
    [][/\ \A input \in QuitKeys : \A state \in ViewStates :
             input_handle(input, state).type = "QuitApp"
       /\ (pc = "select" /\ pc' # "select") =>
             \A input \in QuitKeys :
                ENABLED Input(input, Len(LateRequestsConsumed) + MaxRequests)
       /\ (pc = "select"
           /\ \E input \in QuitKeys :
                 Input(input, Len(LateRequestsConsumed) + MaxRequests)) =>
             pc' = "done"
       /\ pc = "done" =>
             /\ pc' = "done"
             /\ view' = view
             /\ consumed' = consumed
             /\ res_ch' = res_ch
             /\ outbox' = outbox
             /\ UNCHANGED transport_vars]_vars

\* App::run ended by a quit key while the detail view was entered, with a
\* request in flight and a response on the channel that is never consumed
C29_Witness ==
    /\ pc = "done"
    /\ view.state.entered_component = "IndexDetail"
    /\ in_flight_requests > 0
    /\ res_ch # << >>
    /\ Head(res_ch).request_id \in DOMAIN in_flights
    /\ ~ ENABLED RecvResponse

\* C30: the units executing at the same time are never more than the two
\* channels have slots, and a send_request made while that many units are
\* executing suspends in req_tx.send.
C30_UnitsBoundedByCapacities ==
    [][/\ Len(tasks') <= ChannelCapacity + ChannelCapacity
       /\ (/\ Len(tasks) >= ChannelCapacity + ChannelCapacity
           /\ Len(issued') > Len(issued)) => blocked' # None]_vars

\* C31: at a select where input.read has a command to return and a response
\* is on the response channel, the response is not consumed: it stays at the
\* front of the channel, and the step App::run takes out of the select takes
\* an event off the stream.  The response arm can be taken at a select where
\* input.read has no command to return.
C31_InputBeforeResponse ==
    [][/\ (pc = "select" /\ CommandReady /\ res_ch # << >>) =>
             /\ consumed' = consumed
             /\ res_ch' # << >>
             /\ Head(res_ch') = Head(res_ch)
             /\ pc' # "select" => Len(event_stream') = Len(event_stream) - 1
       /\ (pc = "select" /\ ~CommandReady /\ res_ch # << >>) =>
             ENABLED RecvResponse]_vars

\* A select with both ready: Down is at the front of the stream while the
\* resource list is focused, and a response is on the channel
C31_Witness ==
    /\ pc = "select"
    /\ event_stream # << >>
    /\ input_handle(Head(event_stream), view.state).type = "NavigateComponent"
    /\ res_ch # << >>
    /\ Head(res_ch).request_id \in DOMAIN in_flights
    /\ ENABLED Input(Head(event_stream), Len(LateRequestsConsumed) + MaxRequests)
    /\ ~ ENABLED RecvResponse

\* The step is the input arm of the select handling a command in SpecBiased
CommandConsumed ==
    /\ pc = "select"
    /\ \E input \in BiasedInputs :
          Input(input, Len(LateRequestsConsumed) + MaxRequests)

\* C32: a command or a response is consumed only in the select, one at a
\* step, and App::run then leaves the select; it is back in the select only by
\* a draw, which consumes nothing and changes neither the view nor the
\* controller.  So a draw lies between any two consumed items.
C32_DrawBetweenConsumedItems ==
    [][/\ (CommandConsumed \/ Consuming) =>
             /\ pc = "select"
             /\ pc' \in {"draw", "send", "done"}
             /\ Len(consumed') <= Len(consumed) + 1
             /\ ~(CommandConsumed /\ Consuming)
       /\ (view' # view \/ consumed' # consumed) => pc = "select"
       /\ pc = "send" => pc' \in {"send", "draw"}
       /\ pc = "draw" => pc' \in {"draw", "select"}
       /\ (pc # "select" /\ pc' = "select") =>
             /\ pc = "draw"
             /\ view' = view
             /\ consumed' = consumed
             /\ UNCHANGED transport_vars
             /\ event_stream' = event_stream]_vars

\* Two responses were consumed, the second one for the request a command of
\* the run sent; the draw after the second response is still to come
C32_Witness ==
    /\ Len(consumed) = 2
    /\ consumed[1].request_id < consumed[2].request_id
    /\ Len(issued) = 2
    /\ pc = "draw"
    /\ res_ch = << >>
    /\ in_flights = EmptyMap

\* The step is a send_request call
Sending == Len(issued') > Len(issued)

\* C33: with the request channel closed, a send_request call returns without
\* suspending and without ending App::run, its envelope is put on no channel
\* and received by no one, and App::run goes on to the next request of the arm
\* or to the draw; App::run ends only by a quit key, and every select can
\* handle a command that is not quit.
C33_ClosedChannelDropsRequest ==
    [][/\ Sending =>
             /\ req_ch' = << >>
             /\ blocked' = None
             /\ tasks' = << >>
             /\ received' = << >>
             /\ pc' = IF outbox' = << >> THEN "draw" ELSE "send"
             /\ issued'[Len(issued')].envelope.request_id \in DOMAIN in_flights'
       /\ (pc # "done" /\ pc' = "done") =>
             /\ pc = "select"
             /\ \E input \in QuitKeys : Input(input, NavLimit)
       /\ (pc = "select" /\ next_request_id < NavLimit) =>
             \E input \in Events \ QuitKeys : ENABLED Input(input, NavLimit)]_vars

\* Two requests were dropped at the closed channel and App::run is in the
\* select again: their ids are in the in-flight table for good
C33_Witness ==
    /\ api_handler = "done"
    /\ Len(issued) = 2
    /\ pc = "select"
    /\ req_ch = << >>
    /\ tasks = << >>
    /\ in_flight_requests = 2

\* C34: every request in the in-flight table leaves it: its response is
\* consumed by recv_response, whatever the operator types.
C34_SentRequestEventuallyMatched ==
    \A id \in TypingIds :
       (id \in DOMAIN in_flights) ~>
           (id \notin DOMAIN in_flights /\ id \in IdsOf(consumed))

\* C35: a send_request suspended in req_tx.send on a full request channel
\* completes, also when the response channel is full and App::run, the one
\* task that takes responses off it, is the task suspended.
C35_SuspendedSendCompletes ==
    (blocked # None) ~> (blocked = None)

\* The suspended send has completed while the response channel was still
\* full: the dispatch loop took an envelope and the one that waited is on the
\* request channel
C35_Witness ==
    /\ blocked = None
    /\ Len(res_ch) = ChannelCapacity
    /\ consumed = << >>
    /\ handled = << >>
    /\ received # << >>
    /\ req_ch # << >>
    /\ req_ch[Len(req_ch)].request_id = Len(NavRequestsSent) + FullRequests - 1

\* The visible rows of the index table: the cached index list of the selected
\* cluster less the names the filter of the table hides; none when no cluster
\* is selected or no list is cached
VisibleIndexRows(v) ==
    IF v.es.cluster_list_state \in 0..(Len(Configs) - 1)
       /\ Configs[v.es.cluster_list_state + 1] \in DOMAIN v.data
    THEN RowsOf(v.data[Configs[v.es.cluster_list_state + 1]].indices)
    ELSE << >>

\* C36: whenever the index table has n >= 1 visible rows, its cursor is one
\* of 0 .. n - 1.
C36_IndexCursorInRange ==
    Len(VisibleIndexRows(view)) >= 1 =>
        view.es.index_table_state \in 0..(Len(VisibleIndexRows(view)) - 1)

\* C37: while the index detail is entered the focus stays on the index table,
\* so no event is decoded to a Focus or Unfocus command or to a navigation of
\* another component than the index table.
C37_EnteredLocksFocus ==
    view.state.entered_component = "IndexDetail" =>
        /\ view.state.focused_component = "IndexTable"
        /\ \A input \in Events :
              LET command == input_handle(input, view.state)
              IN  /\ command.type \notin {"FocusComponent", "UnfocusComponent"}
                  /\ command.type = "NavigateComponent" =>
                        command.component = "IndexTable"

\* The index detail is entered and the cursor of the index table was moved
\* off the row of the drill-down key after that
C37_Witness ==
    /\ view.state.entered_component = "IndexDetail"
    /\ view.es.detail_index_name # Nil
    /\ view.es.index_table_state \in 0..(Len(VisibleIndexRows(view)) - 1)
    /\ VisibleIndexRows(view)[view.es.index_table_state + 1]
          # view.es.detail_index_name
    /\ pc = "select"

\* C38: a set drill-down key implies that the index detail is entered, so Esc
\* is decoded to the Leave command of the index detail whenever the key is
\* set.
C38_KeyImpliesEntered ==
    view.es.detail_index_name # Nil =>
        /\ view.state.entered_component = "IndexDetail"
        /\ input_handle([code |-> "Esc", ctrl |-> FALSE], view.state)
              = Command("Leave", "IndexDetail", Nil)

\* Enter has just set the drill-down key: the request of the index detail is
\* about to be sent
C38_Witness ==
    /\ view.es.detail_index_name # Nil
    /\ view.state.entered_component = "IndexDetail"
    /\ pc = "send"
    /\ \E i \in 1..Len(outbox) :
          /\ outbox[i].kind = "FetchIndex"
          /\ outbox[i].index = view.es.detail_index_name

\* Enter is decoded to the Enter command while the drill-down key is unset
\* and the cursor of the index table is on no visible row of the selected
\* cluster: no index list is cached, or the cursor is beyond its rows
EnterOnNoRow ==
    /\ input_handle(EnterKey, view.state).type = "Enter"
    /\ view.es.detail_index_name = Nil
    /\ view.es.index_table_state
          \notin 0..(Len(VisibleIndexRows(view)) - 1)
    /\ Input(EnterKey, ShrinkLimit)

\* C39: Enter on no row with the drill-down key unset leaves the key unset,
\* sets entered to the index detail, and hands to send_requests the list
\* request of the selected cluster and resource, never an index-detail
\* request.
C39_EnterOnNoRowRequestsList ==
    [][EnterOnNoRow =>
          /\ view'.es.detail_index_name = Nil
          /\ view'.state.entered_component = "IndexDetail"
          /\ outbox' = <<ListRequest(view.es.cluster_list_state,
                                     view.es.resource_list_state)>>
          /\ \A i \in 1..Len(outbox') : outbox'[i].kind # "FetchIndex"
          /\ pc' = "send"]_vars

\* Enter was pressed with the cursor beyond the one visible row of the list
\* that had come back shorter, and the index list was requested again
C39_Witness ==
    /\ view.state.entered_component = "IndexDetail"
    /\ view.es.detail_index_name = Nil
    /\ Len(VisibleIndexRows(view)) = 1
    /\ view.es.index_table_state = 1
    /\ pc = "send"
    /\ outbox = <<FetchIndices("b")>>

=============================================================================
